---- MODULE Spec2Model ----
(***************************************************************************)
(* A model of vigor's documentation pages (package doc, package explore):  *)
(*   - Doc: the page under construction, its output position, the scope    *)
(*     stacks for highlights and links, folds, anchors, interned strings;  *)
(*   - Manager: the registry of displayed pages and its event handlers;    *)
(*   - declVisitor / docPrinter.printDecl: annotating a declaration and    *)
(*     merging the annotations with the re-scanned printed text.           *)
(*   - docPrinter.execute: the heading and the headers of a page;          *)
(*   - print (package doc, 2015): the page of a specifier;                 *)
(*   - context.Get: the cached build context of an environment;            *)
(*   - format.minUpdate: the smallest range of buffer lines to replace.    *)
(***************************************************************************)
EXTENDS Integers, Sequences, FiniteSets, TLC

VARIABLES
    d,          \* the Doc under construction (doc.Doc)
    written,    \* history: one entry per piece written, its address and the frames on top
    lookup,     \* the last findLink call on the finished Doc's data and what it returned
    docs,       \* Manager.docs: buffer -> the data of the page displayed in it
    highlights, \* Manager.highlights: window -> the overlay the manager recorded
    mu,         \* Manager.mu: 0 when free, else the handler holding it
    procs,      \* the handlers in flight: one record per dispatch slot
    nextData,   \* the number of data objects allocated so far, plus one
    events,     \* the number of events dispatched so far
    closed,     \* history: buffers closed with no display started since
    lastRet,    \* history: the handler that returned last, and what it did
    crashed,    \* a handler panicked
    curwin,     \* editor: the current window
    matches,    \* editor: window -> the overlays (matches) it holds
    pd,         \* docPrinter.printDecl: where it stands in the declaration it prints
    codec,      \* the last (line, column) made a position, and the position
    render,     \* the last print(uri, cwd) call: what it loaded and what it returned
    cx,         \* package context: the Env values of the callers, the cached ctx, the last Get
    ds,         \* the Doc built by the same calls with a push that stores start in the frame
    upd         \* the last minUpdate call: the buffer before, the lines wanted, the write

docVars == <<d, written, lookup>>

mgrVars == <<docs, highlights, mu, procs, nextData, events, closed, lastRet, crashed,
             curwin, matches>>

\* what the construction of a Doc leaves alone, and what the manager does
otherVars == <<codec, render, cx, ds, upd>>

nonDocVars == <<mgrVars, pd, otherVars>>

nonMgrVars == <<docVars, pd, otherVars>>

vars == <<d, written, lookup, docs, highlights, mu, procs, nextData, events, closed,
          lastRet, crashed, curwin, matches, pd, codec, render, cx, ds, upd>>

----------------------------------------------------------------------------
(* Bounds of the Doc construction model *)

\* most pieces of text written to one Doc
MaxWrites == 3
\* deepest scope stack
MaxDepth == 2
\* largest column a lookup asks for
MaxCol == 4
\* largest line a lookup asks for
MaxLine == 2

----------------------------------------------------------------------------
(* Text: the buffer is a sequence of pieces, a piece being the newline byte *)
(* or a newline-free string; byte offsets are sums of piece lengths.        *)

NL == "\n"

NIL == "nil"

RECURSIVE byteLen(_)
byteLen(p) ==
    IF p = <<>> THEN 0 ELSE Len(Head(p)) + byteLen(Tail(p))

\* position: a line and a column in one integer
ColumnSpan == 10000

newPosition(ln, column) == ln * ColumnSpan + column

\* a mutant: division that rounds down
floorDiv(a, b) == a \div b

\* Go's / and % truncate toward zero
goDiv(a, b) == IF a >= 0 THEN a \div b ELSE -((-a) \div b)

goMod(a, b) == a - b * goDiv(a, b)

positionLine(p) == goDiv(p, ColumnSpan)

positionColumn(p) == goMod(p, ColumnSpan)

\* no position made yet
NoPosition == [set |-> FALSE, ln |-> 0, col |-> 0, p |-> 0]

\* no print call yet
NoRender ==
    [called |-> FALSE, proto |-> FALSE, uri |-> <<>>, load |-> "none", page |-> "nil",
     err |-> FALSE]

\* context.Env: the four settings a caller asks for, "" for one it leaves unset
Fields == {"GOROOT", "GOPATH", "GOOS", "GOARCH"}

EnvValues == {"", "x", "y"}

\* the Env values callers hold and pass by address (&eval.Env, &context.Env{})
Callers == {1, 2}

NoEnv == [f \in Fields |-> ""]

\* package context before the first Get: ctx is nil (env 0), nothing returned
NoContext ==
    [heap |-> [c \in Callers |-> NoEnv],
     ctx |-> [env |-> 0, built |-> NoEnv, Build |-> NoEnv],
     got |-> [env |-> 0, asked |-> NoEnv, cached |-> FALSE, Build |-> NoEnv],
     mutations |-> 0]

\* no minUpdate call yet
NoUpdate ==
    [called |-> FALSE, in |-> <<>>, out |-> <<>>, buf |-> <<>>, writes |-> 0,
     head |-> 0, tail |-> 0]

\* the largest line, and the distance of the columns from either end of
\* 0 .. ColumnSpan - 1, that positions are made of
MaxCodecLine == 9

MaxCodecCol == 5

\* the columns a position is made of
CodecCols == (0..MaxCodecCol) \cup ((ColumnSpan - 1 - MaxCodecCol)..(ColumnSpan - 1))

\* the (line, column) pairs the program encodes: lines from 0, columns within
\* the span, and the (0, -1) of a link without anchor
CodecInputs == ((0..MaxCodecLine) \X CodecCols) \cup {<<0, -1>>}

----------------------------------------------------------------------------
(* Doc *)

NewDoc ==
    [ buf |-> <<>>,
      lineNum |-> 1, lineOffset |-> -1, scanOffset |-> 0,
      highlightStack |-> <<>>, linkStack |-> <<>>, foldStack |-> <<>>,
      highlights |-> <<>>, folds |-> <<>>, anchors |-> <<>>,
      strings |-> <<>>, links |-> <<>> ]

WriteString(doc, s) == [doc EXCEPT !.buf = Append(@, s)]

\* Write of a run of pieces
RECURSIVE Write(_, _)
Write(doc, ps) ==
    IF ps = <<>> THEN doc ELSE Write(WriteString(doc, Head(ps)), Tail(ps))

\* a scan that records a newline's offset in the scanned tail, not in the buffer
RECURSIVE scanFromTail(_, _, _, _, _)
scanFromTail(buf, i, off, scanOffset, st) ==
    IF i > Len(buf) THEN st
    ELSE scanFromTail(buf, i + 1, off + Len(buf[i]), scanOffset,
                      IF off >= scanOffset /\ buf[i] = NL
                      THEN [lineNum |-> st.lineNum + 1, lineOffset |-> off - scanOffset]
                      ELSE st)

\* the scan of outputPosition over the pieces from byte offset scanOffset on:
\* st = [lineNum, lineOffset], off = byte offset of piece i
RECURSIVE scanFrom(_, _, _, _, _)
scanFrom(buf, i, off, scanOffset, st) ==
    IF i > Len(buf) THEN st
    ELSE scanFrom(buf, i + 1, off + Len(buf[i]), scanOffset,
                  IF off >= scanOffset /\ buf[i] = NL
                  THEN [lineNum |-> st.lineNum + 1, lineOffset |-> off]
                  ELSE st)

\* outputPosition: the Doc after the scan (d) and the position returned (p)
outputPosition(doc) ==
    LET st == scanFrom(doc.buf, 1, 0, doc.scanOffset,
                       [lineNum |-> doc.lineNum, lineOffset |-> doc.lineOffset])
        n  == byteLen(doc.buf)
    IN  [ d |-> [doc EXCEPT !.lineNum = st.lineNum, !.lineOffset = st.lineOffset,
                            !.scanOffset = n],
          p |-> newPosition(st.lineNum, n - st.lineOffset) ]

\* link.appendCopy / highlight.appendCopy
appendCopy(doc, value, start, end) ==
    IF value.kind = "link"
    THEN [doc EXCEPT !.links = Append(@, [start |-> start, end |-> end,
                                         path |-> value.path, address |-> value.address])]
    ELSE [doc EXCEPT !.highlights = Append(@, [start |-> start, end |-> end,
                                               group |-> value.group])]

\* a push that forgets to emit the enclosing frame's pending span
pushNoEmit(doc, stack, value) ==
    LET o == outputPosition(doc)
    IN  [o.d EXCEPT ![stack] = Append(@, [start |-> o.p, value |-> value])]

\* a push that emits the enclosing frame's span even when it is empty
pushAlways(doc, stack, value) ==
    LET o  == outputPosition(doc)
        st == o.d[stack]
        n  == Len(st)
        d1 == IF n > 0 THEN appendCopy(o.d, st[n].value, st[n].start, o.p) ELSE o.d
    IN  [d1 EXCEPT ![stack] = Append(@, [start |-> o.p, value |-> value])]

push(doc, stack, value) ==
    LET o  == outputPosition(doc)
        st == o.d[stack]
        n  == Len(st)
        d1 == IF n > 0 /\ st[n].start # o.p
              THEN appendCopy(o.d, st[n].value, st[n].start, o.p)
              ELSE o.d
    IN  [d1 EXCEPT ![stack] = Append(@, [start |-> o.p, value |-> value])]

\* a pop that leaves the start of the frame below where it was
popNoReset(doc, stack) ==
    LET st   == doc[stack]
        e    == st[Len(st)]
        rest == SubSeq(st, 1, Len(st) - 1)
        o    == outputPosition([doc EXCEPT ![stack] = rest])
    IN  IF e.start # o.p THEN appendCopy(o.d, e.value, e.start, o.p) ELSE o.d

pop(doc, stack) ==
    LET st   == doc[stack]
        e    == st[Len(st)]
        rest == SubSeq(st, 1, Len(st) - 1)
        o    == outputPosition([doc EXCEPT ![stack] = rest])
        d1   == IF e.start # o.p THEN appendCopy(o.d, e.value, e.start, o.p) ELSE o.d
    IN  IF Len(rest) > 0
        THEN [d1 EXCEPT ![stack][Len(rest)].start = o.p]
        ELSE d1

PushHighlight(doc, group) == push(doc, "highlightStack", [kind |-> "highlight", group |-> group])

PopHighlight(doc) == pop(doc, "highlightStack")

\* the index of s in the interned strings (0-based), interning it when new:
\* the Doc after the call (d) and the index (i)
stringIndex(doc, s) ==
    IF \E i \in 1..Len(doc.strings) : doc.strings[i] = s
    THEN [d |-> doc, i |-> (CHOOSE i \in 1..Len(doc.strings) : doc.strings[i] = s) - 1]
    ELSE [d |-> [doc EXCEPT !.strings = Append(@, s)], i |-> Len(doc.strings)]

PushLinkAnchor(doc, path, anchor) ==
    LET a == IF anchor # ""
             THEN LET si == stringIndex(doc, anchor)
                  IN  [d |-> si.d, address |-> newPosition(0, si.i)]
             ELSE [d |-> doc, address |-> newPosition(0, -1)]
        pi == stringIndex(a.d, path)
    IN  push(pi.d, "linkStack", [kind |-> "link", path |-> pi.i, address |-> a.address])

PushLink(doc, path, ln, column) ==
    LET pi == stringIndex(doc, path)
    IN  push(pi.d, "linkStack",
             [kind |-> "link", path |-> pi.i, address |-> newPosition(ln, column)])

PopLink(doc) == pop(doc, "linkStack")

WriteLink(doc, text, path, ln, column) ==
    PopLink(WriteString(PushLink(doc, path, ln, column), text))

WriteLinkAnchor(doc, text, path, anchor) ==
    PopLink(WriteString(PushLinkAnchor(doc, path, anchor), text))

AddAnchor(doc, name) ==
    LET o == outputPosition(doc)
    IN  [o.d EXCEPT !.anchors = (name :> <<positionLine(o.p), positionColumn(o.p)>>) @@ @]

PushFold(doc) ==
    LET o == outputPosition(doc)
    IN  [o.d EXCEPT !.foldStack = Append(@, o.p)]

\* a PopFold that keeps every fold
PopFoldAlways(doc) ==
    LET start  == doc.foldStack[Len(doc.foldStack)]
        o      == outputPosition([doc EXCEPT !.foldStack = SubSeq(@, 1, Len(@) - 1)])
        lend   == IF positionColumn(o.p) = 1 THEN positionLine(o.p) - 1 ELSE positionLine(o.p)
    IN  [o.d EXCEPT !.folds = Append(@, [start |-> positionLine(start), end |-> lend])]

PopFold(doc) ==
    LET start  == doc.foldStack[Len(doc.foldStack)]
        o      == outputPosition([doc EXCEPT !.foldStack = SubSeq(@, 1, Len(@) - 1)])
        lstart == positionLine(start)
        lend   == IF positionColumn(o.p) = 1 THEN positionLine(o.p) - 1 ELSE positionLine(o.p)
    IN  IF lend > lstart
        THEN [o.d EXCEPT !.folds = Append(@, [start |-> lstart, end |-> lend])]
        ELSE o.d

NoLookup == [done |-> FALSE, ln |-> 0, col |-> 0, link |-> 0]

\* printDecl not running, no declaration printed yet.  phase: "idle" between
\* calls, "loop" in the scanner loop, "panic"; annotations, text, i and
\* lastOffset are the locals of the loop; the rest is history: n the number
\* of calls that returned, decl the declaration of the last call, nAnn and
\* nIdent its annotations and identifier tokens, startLen the pieces on the
\* page when it started, underflow whether it ran out of annotations and
\* what the page held then, underflows the number of calls that did.
NoDecl ==
    [ phase |-> "idle", annotations |-> <<>>, text |-> <<>>, i |-> 1, lastOffset |-> 0,
      n |-> 0, decl |-> 0, nAnn |-> 0, nIdent |-> 0, startLen |-> 0,
      underflow |-> FALSE, underflows |-> 0, linksAtBreak |-> 0, anchorsAtBreak |-> {} ]

----------------------------------------------------------------------------
(* Manager.findLink on a page's data *)

\* the predicate of the search with >= for >
linkEndsAtOrAfter(l, p) == l.end >= p

\* the predicate handed to sort.Search
linkEndsAfter(l, p) == l.end > p

\* sort.Search(n, f): the smallest index in [lo, hi) for which f holds, hi when
\* none does, by bisection (indices are 0-based as in Go; links[h + 1] is Go's
\* links[h])
RECURSIVE sortSearch(_, _, _, _)
sortSearch(links, p, lo, hi) ==
    IF lo >= hi THEN lo
    ELSE LET h == lo + ((hi - lo) \div 2)
         IN  IF ~linkEndsAfter(links[h + 1], p)
             THEN sortSearch(links, p, h + 1, hi)
             ELSE sortSearch(links, p, lo, h)

\* the part of findLink after the registry read: 0 for "no link", else the
\* 1-based index of the link in data.links
findLinkIn(links, ln, col) ==
    LET p == newPosition(ln, col)
        i == sortSearch(links, p, 0, Len(links))
    IN  IF i >= Len(links) THEN 0
        ELSE IF positionLine(links[i + 1].start) # ln THEN 0
        ELSE i + 1

----------------------------------------------------------------------------
(* Manager: the registry of displayed pages and the editor it talks to *)

\* most events dispatched in one run
MaxEvents == 3

Buffers == {1, 2}

Windows == {1, 2}

\* the dispatch slots: handlers run concurrently, one per slot
Slots == {1, 2}

\* the pages printDoc returns, as the Doc calls that build them
PageA ==
    WriteLink(WriteLinkAnchor(WriteString(NewDoc, "a"), "b", "", "X"), "c", "x.go", 3, 7)

PageB == WriteString(WriteLinkAnchor(NewDoc, "ab", "godoc://p", ""), NL)

\* the Doc onBufReadCmd builds from printDoc's error
ErrorDoc == WriteString(NewDoc, "error")

Pages == <<PageA, PageB, ErrorDoc>>

\* the pages printDoc can return
Printed == {1, 2}

\* the cursor positions the editor reports
Positions == {<<1, 1>>, <<1, 2>>, <<1, 3>>}

\* a *link is the data object it belongs to and its index there; nil is NoLink
NoLink == [data |-> 0, i |-> 0]

\* a *Doc handed to Display: nil, or the Doc of a page with its data object
NilDoc == [nil |-> TRUE, id |-> 0, page |-> 0]

NoData == [id |-> 0, page |-> 0]

NoHighlight == [set |-> FALSE, id |-> 0, link |-> NoLink]

NoCmd == [edit |-> "", cursor |-> <<>>, anchor |-> NIL]

Idle ==
    [ h |-> "idle", pc |-> "idle", b |-> 0, ln |-> 0, col |-> 0, doc |-> NilDoc,
      printErr |-> FALSE, newLink |-> NoLink, hit |-> FALSE, w |-> 0,
      old |-> NoHighlight, calls |-> <<>>, cmd |-> NoCmd ]

NoRet == [ h |-> "none", err |-> FALSE, p |-> Idle ]

\* a new Doc, not yet written to, and a new Manager (NewManager) with no
\* handler running
Init ==
    /\ d = NewDoc
    /\ written = <<>>
    /\ lookup = NoLookup
    /\ docs = [b \in Buffers |-> NoData]
    /\ highlights = [w \in Windows |-> NoHighlight]
    /\ mu = 0
    /\ procs = [t \in Slots |-> Idle]
    /\ nextData = 1
    /\ events = 0
    /\ closed = {}
    /\ lastRet = NoRet
    /\ crashed = FALSE
    /\ curwin = 1
    /\ matches = [w \in Windows |-> {}]
    /\ pd = NoDecl
    /\ codec = NoPosition
    /\ render = NoRender
    /\ cx = NoContext
    /\ ds = NewDoc
    /\ upd = NoUpdate

\* Manager.findLink: the registry read under the lock, then the search
findLink(b, ln, col) ==
    LET dd == docs[b]
    IN  IF dd.id = 0 THEN NoLink
        ELSE LET i == findLinkIn(Pages[dd.page].links, ln, col)
             IN  IF i = 0 THEN NoLink ELSE [data |-> dd.id, i |-> i]

\* the link record a *link points to, in the page its data object belongs to
linkOf(pg, l) == Pages[pg].links[l.i]

\* the handler in slot t returns: the slot is free again
return(t, err) ==
    /\ procs' = [procs EXCEPT ![t] = Idle]
    /\ lastRet' = [h |-> procs[t].h, err |-> err, p |-> procs[t]]

returnWith(t, err, p) ==
    /\ procs' = [procs EXCEPT ![t] = Idle]
    /\ lastRet' = [h |-> p.h, err |-> err, p |-> p]

\* an event is dispatched to the first free slot
canStart(t) ==
    /\ procs[t].h = "idle"
    /\ \A u \in Slots : u < t => procs[u].h # "idle"
    /\ events < MaxEvents
    /\ ~crashed

\* onBufDelete(b): lock, delete, unlock
onBufDelete(t) ==
    \E b \in Buffers :
        /\ canStart(t)
        /\ mu = 0
        /\ events' = events + 1
        /\ docs' = [docs EXCEPT ![b] = NoData]
        /\ closed' = closed \cup {b}
        /\ returnWith(t, FALSE, [Idle EXCEPT !.h = "onBufDelete", !.b = b])
        /\ UNCHANGED <<highlights, mu, nextData, crashed, curwin, matches>>

\* what onBufReadCmd hands to Display after printDoc returned (doc, err): in
\*     d, err := printDoc(...); if err != nil { d := doc.NewDoc(); ... }
\* the Doc holding the error text is a new variable of the if block, so the d
\* handed to Display is printDoc's, which is nil when err is not
displayArg(doc, err) == IF err THEN NilDoc ELSE doc

\* onBufReadCmd: printDoc, then Display up to its call of the editor batch.
\* Display reads d.buf to build the batch: a nil d panics there.
onBufReadCmd(t) ==
    \E b \in Buffers, k \in Printed, err \in BOOLEAN :
        LET doc == displayArg([nil |-> FALSE, id |-> nextData, page |-> k], err)
        IN  /\ canStart(t)
            /\ events' = events + 1
            /\ nextData' = nextData + 1
            /\ closed' = closed \ {b}
            /\ procs' = [procs EXCEPT ![t] =
                   [Idle EXCEPT !.h = "onBufReadCmd", !.b = b, !.doc = doc, !.printErr = err,
                                !.pc = IF doc.nil THEN "panic" ELSE "Execute"]]
            /\ crashed' = doc.nil
            /\ UNCHANGED <<docs, highlights, mu, lastRet, curwin, matches>>

\* a Display that registers the page before the batch has returned
DisplayExecuteStored(t) ==
    \E err \in BOOLEAN :
        /\ procs[t].pc = "Execute"
        /\ docs' = [docs EXCEPT ![procs[t].b] =
                        [id |-> procs[t].doc.id, page |-> procs[t].doc.page]]
        /\ IF err
           THEN return(t, TRUE)
           ELSE /\ procs' = [procs EXCEPT ![t].pc = "store"]
                /\ UNCHANGED lastRet
        /\ UNCHANGED <<highlights, mu, nextData, events, closed, crashed, curwin, matches>>

\* Display: the batch returns; on an error Display returns it
DisplayExecute(t) ==
    \E err \in BOOLEAN :
        /\ procs[t].pc = "Execute"
        /\ IF err
           THEN return(t, TRUE)
           ELSE /\ procs' = [procs EXCEPT ![t].pc = "store"]
                /\ UNCHANGED lastRet
        /\ UNCHANGED <<docs, highlights, mu, nextData, events, closed, crashed, curwin, matches>>

\* a mutant: Display returns nil without registering the page
DisplayNoStore(t) ==
    /\ procs[t].pc = "store"
    /\ mu = 0
    /\ return(t, FALSE)
    /\ UNCHANGED <<docs, highlights, mu, nextData, events, closed, crashed, curwin, matches>>

\* Display: lock, m.docs[buf] = d.data, unlock, return nil
DisplayStore(t) ==
    /\ procs[t].pc = "store"
    /\ mu = 0
    /\ docs' = [docs EXCEPT ![procs[t].b] = [id |-> procs[t].doc.id, page |-> procs[t].doc.page]]
    /\ return(t, FALSE)
    /\ UNCHANGED <<highlights, mu, nextData, events, closed, crashed, curwin, matches>>

\* a mutant: line 0 is taken for a line of the target
jumpCmdFromLineZero(pg, l) ==
    LET lk == linkOf(pg, l)
        ln == positionLine(lk.address)
        c  == positionColumn(lk.address)
    IN  [ edit   |-> Pages[pg].strings[lk.path + 1],
          cursor |-> IF ln >= 0 THEN <<ln, c>> ELSE <<>>,
          anchor |-> NIL ]

\* the commands onJump joins for a link of page pg
jumpCmd(pg, l) ==
    LET lk == linkOf(pg, l)
        ln == positionLine(lk.address)
        c  == positionColumn(lk.address)
    IN  [ edit   |-> Pages[pg].strings[lk.path + 1],
          cursor |-> IF ln > 0 THEN <<ln, c>> ELSE <<>>,
          anchor |-> IF ln <= 0 /\ c >= 0 THEN Pages[pg].strings[c + 1] ELSE NIL ]

\* onJump: findLink; without a link return nil, else send the commands
onJump(t) ==
    \E b \in Buffers, q \in Positions :
        LET l == findLink(b, q[1], q[2])
            p == [Idle EXCEPT !.h = "onJump", !.b = b, !.ln = q[1], !.col = q[2],
                              !.newLink = l]
        IN  /\ canStart(t)
            /\ mu = 0
            /\ events' = events + 1
            /\ IF l = NoLink
               THEN returnWith(t, FALSE, p)
               ELSE /\ procs' = [procs EXCEPT ![t] =
                          [p EXCEPT !.pc = "Command", !.cmd = jumpCmd(docs[b].page, l)]]
                    /\ UNCHANGED lastRet
            /\ UNCHANGED <<docs, highlights, mu, nextData, closed, crashed, curwin, matches>>

\* onJump: nvim.Command returns
JumpCommand(t) ==
    \E err \in BOOLEAN :
        /\ procs[t].pc = "Command"
        /\ return(t, err)
        /\ UNCHANGED <<docs, highlights, mu, nextData, events, closed, crashed, curwin, matches>>

\* onUpdateHighlight: findLink, then the call of CurrentWindow. The positions
\* are the cursor's, and the (-1, -1) of BufWinLeave.
onUpdateHighlight(t) ==
    \E b \in Buffers, q \in Positions \cup {<<-1, -1>>} :
        LET l == findLink(b, q[1], q[2])
        IN  /\ canStart(t)
            /\ mu = 0
            /\ events' = events + 1
            /\ procs' = [procs EXCEPT ![t] =
                   [Idle EXCEPT !.h = "onUpdateHighlight", !.b = b, !.ln = q[1], !.col = q[2],
                                !.newLink = l, !.pc = "CurrentWindow",
                                !.hit = /\ docs[b].id # 0
                                        /\ \E i \in 1..Len(Pages[docs[b].page].links) :
                                              LET lk == Pages[docs[b].page].links[i]
                                              IN  /\ lk.start <= newPosition(q[1], q[2])
                                                  /\ newPosition(q[1], q[2]) < lk.end]]
            /\ UNCHANGED <<docs, highlights, mu, nextData, closed, lastRet, crashed, curwin,
                           matches>>

\* onUpdateHighlight: CurrentWindow returns
HighlightCurrentWindow(t) ==
    \E err \in BOOLEAN :
        /\ procs[t].pc = "CurrentWindow"
        /\ IF err
           THEN return(t, TRUE)
           ELSE /\ procs' = [procs EXCEPT ![t].w = curwin, ![t].pc = "Lock"]
                /\ UNCHANGED lastRet
        /\ UNCHANGED <<docs, highlights, mu, nextData, events, closed, crashed, curwin, matches>>

\* a comparison that never finds the links the same
neverSameLink(oldLink, newLink) == FALSE

\* the comparison of the link applied in the window with the one resolved:
\* of pointers
sameLink(oldLink, newLink) == oldLink = newLink

\* the matchaddpos call for link l
addCall(l) == [f |-> "matchaddpos", id |-> 0, link |-> l]

\* onUpdateHighlight: m.mu.Lock() with the unlock deferred; compare the link
\* applied in the window with the new one; unless they are the same, drop the
\* window's record and call matchdelete, or record the new link and call
\* matchaddpos: the lock stays held while the call is out
HighlightLock(t) ==
    LET p  == procs[t]
        hl == highlights[p.w]
        oldLink == IF hl.set THEN hl.link ELSE NoLink
        p1 == [p EXCEPT !.old = hl]
    IN  /\ p.pc = "Lock"
        /\ mu = 0
        /\ IF sameLink(oldLink, p.newLink)
           THEN /\ returnWith(t, FALSE, p1)
                /\ UNCHANGED <<mu, highlights>>
           ELSE IF hl.set
           THEN /\ highlights' = [highlights EXCEPT ![p.w] = NoHighlight]
                /\ mu' = t
                /\ procs' = [procs EXCEPT ![t] =
                       [p1 EXCEPT !.pc = "matchdelete",
                                  !.calls = <<[f |-> "matchdelete", id |-> hl.id, link |-> NoLink]>>]]
                /\ UNCHANGED lastRet
           ELSE /\ highlights' = [highlights EXCEPT ![p.w] =
                       [set |-> TRUE, id |-> 0, link |-> p.newLink]]
                /\ mu' = t
                /\ procs' = [procs EXCEPT ![t] =
                       [p1 EXCEPT !.pc = "matchaddpos", !.calls = <<addCall(p.newLink)>>]]
                /\ UNCHANGED lastRet
        /\ UNCHANGED <<docs, nextData, events, closed, crashed, curwin, matches>>

\* editor: the ids of the overlays of window w
matchIds(w) == { m.id : m \in matches[w] }

\* onUpdateHighlight: matchdelete returns. The editor deletes the overlay of
\* that id in its current window, and fails when there is none; the call can
\* also fail on its way. On an error the handler returns it (and unlocks).
HighlightMatchDelete(t) ==
    \E fail \in BOOLEAN :
        LET p   == procs[t]
            id  == p.calls[1].id
            err == fail \/ id \notin matchIds(curwin)
        IN  /\ p.pc = "matchdelete"
            /\ matches' = IF err THEN matches
                          ELSE [matches EXCEPT ![curwin] = { m \in @ : m.id # id }]
            /\ IF err
               THEN /\ mu' = 0
                    /\ return(t, TRUE)
                    /\ UNCHANGED highlights
               ELSE IF p.newLink # NoLink
               THEN /\ highlights' = [highlights EXCEPT ![p.w] =
                           [set |-> TRUE, id |-> 0, link |-> p.newLink]]
                    /\ procs' = [procs EXCEPT ![t].pc = "matchaddpos",
                                              ![t].calls = Append(@, addCall(p.newLink))]
                    /\ UNCHANGED <<mu, lastRet>>
               ELSE /\ mu' = 0
                    /\ return(t, FALSE)
                    /\ UNCHANGED highlights
            /\ UNCHANGED <<docs, nextData, events, closed, crashed, curwin>>

\* editor: the id matchaddpos gives a new overlay of window w
freshMatchId(w) == CHOOSE i \in 1..(Cardinality(matches[w]) + 1) : i \notin matchIds(w)

\* onUpdateHighlight: matchaddpos returns; the id it gives is stored in the
\* window's record (hl.id)
HighlightMatchAdd(t) ==
    \E fail \in BOOLEAN :
        LET p  == procs[t]
            id == freshMatchId(curwin)
        IN  /\ p.pc = "matchaddpos"
            /\ mu' = 0
            /\ IF fail
               THEN /\ return(t, TRUE)
                    /\ UNCHANGED <<highlights, matches>>
               ELSE /\ matches' = [matches EXCEPT ![curwin] = @ \cup {[id |-> id, link |-> p.newLink]}]
                    /\ highlights' = [highlights EXCEPT ![p.w].id = id]
                    /\ returnWith(t, FALSE, [p EXCEPT !.calls[Len(p.calls)].id = id])
            /\ UNCHANGED <<docs, nextData, events, closed, crashed, curwin>>

\* editor: the user moves to another window; the editor does so only while it
\* is not waiting for a handler it called
SwitchWindow ==
    \E w \in Windows \ {curwin} :
        /\ \A t \in Slots : procs[t].h = "idle"
        /\ ~crashed
        /\ curwin' = w
        /\ UNCHANGED <<docs, highlights, mu, procs, nextData, events, closed, lastRet, crashed,
                       matches>>

NextMgr ==
    \/ \E t \in Slots : onBufDelete(t) /\ UNCHANGED nonMgrVars
    \/ \E t \in Slots : onBufReadCmd(t) /\ UNCHANGED nonMgrVars
    \/ \E t \in Slots : DisplayExecute(t) /\ UNCHANGED nonMgrVars
    \/ \E t \in Slots : DisplayStore(t) /\ UNCHANGED nonMgrVars
    \/ \E t \in Slots : onJump(t) /\ UNCHANGED nonMgrVars
    \/ \E t \in Slots : JumpCommand(t) /\ UNCHANGED nonMgrVars
    \/ \E t \in Slots : onUpdateHighlight(t) /\ UNCHANGED nonMgrVars
    \/ \E t \in Slots : HighlightCurrentWindow(t) /\ UNCHANGED nonMgrVars
    \/ \E t \in Slots : HighlightLock(t) /\ UNCHANGED nonMgrVars
    \/ \E t \in Slots : HighlightMatchDelete(t) /\ UNCHANGED nonMgrVars
    \/ \E t \in Slots : HighlightMatchAdd(t) /\ UNCHANGED nonMgrVars
    \/ SwitchWindow /\ UNCHANGED nonMgrVars

\* the manager under independently dispatched events
SpecMgr == Init /\ [][NextMgr]_vars

----------------------------------------------------------------------------
(* Page construction as a state machine: the calls a page assembler makes   *)
(* on one Doc, in any order the Doc's API allows without a panic (a pop     *)
(* needs a frame on its stack).                                             *)

Pieces == {"a", NL}

Groups == {"Comment", "Special"}

\* the link targets pushed: PushLink(path, line, column) and PushLinkAnchor(path, anchor)
LinkCalls ==
    { [f |-> "PushLink", path |-> "x.go", ln |-> 3, column |-> 7, anchor |-> ""],
      [f |-> "PushLinkAnchor", path |-> "", ln |-> 0, column |-> 0, anchor |-> "A"] }

\* the value of the frame on top of a scope stack
top(st) == IF st = <<>> THEN [kind |-> "none"] ELSE st[Len(st)].value

DoWrite ==
    \E s \in Pieces :
        /\ ~lookup.done
        /\ Len(d.buf) < MaxWrites
        /\ d' = WriteString(d, s)
        /\ written' = Append(written,
               [addr |-> outputPosition(d).p, len |-> Len(s),
                highlight |-> top(d.highlightStack), link |-> top(d.linkStack)])
        /\ UNCHANGED <<lookup, nonDocVars>>

DoPushHighlight ==
    \E g \in Groups :
        /\ ~lookup.done
        /\ Len(d.highlightStack) < MaxDepth
        /\ d' = PushHighlight(d, g)
        /\ UNCHANGED <<written, lookup, nonDocVars>>

DoPopHighlight ==
    /\ ~lookup.done
    /\ Len(d.highlightStack) > 0
    /\ d' = PopHighlight(d)
    /\ UNCHANGED <<written, lookup, nonDocVars>>

DoPushLink ==
    \E c \in LinkCalls :
        /\ ~lookup.done
        /\ Len(d.linkStack) < MaxDepth
        /\ d' = IF c.f = "PushLink" THEN PushLink(d, c.path, c.ln, c.column)
                ELSE PushLinkAnchor(d, c.path, c.anchor)
        /\ UNCHANGED <<written, lookup, nonDocVars>>

DoPopLink ==
    /\ ~lookup.done
    /\ Len(d.linkStack) > 0
    /\ d' = PopLink(d)
    /\ UNCHANGED <<written, lookup, nonDocVars>>

DoPushFold ==
    /\ ~lookup.done
    /\ Len(d.foldStack) < MaxDepth
    /\ d' = PushFold(d)
    /\ UNCHANGED <<written, lookup, nonDocVars>>

DoPopFold ==
    /\ ~lookup.done
    /\ Len(d.foldStack) > 0
    /\ d' = PopFold(d)
    /\ UNCHANGED <<written, lookup, nonDocVars>>

NextScope == DoWrite \/ DoPushHighlight \/ DoPopHighlight

\* the highlight scope stack under construction
SpecScope == Init /\ [][NextScope]_vars

\* findLink(b, line, col) on the data of the finished Doc, as a page
\* registered for b: the cursor positions the editor sends, and the (-1, -1)
\* of BufWinLeave
DoFindLink ==
    \E q \in {<<-1, -1>>} \cup ((1..MaxLine) \X (1..MaxCol)) :
        /\ d.linkStack = <<>>
        /\ lookup' = [done |-> TRUE, ln |-> q[1], col |-> q[2],
                      link |-> findLinkIn(d.links, q[1], q[2])]
        /\ UNCHANGED <<d, written, nonDocVars>>

NextLink == DoWrite \/ DoPushLink \/ DoPopLink \/ DoFindLink

\* the link scope stack under construction
SpecLink == Init /\ [][NextLink]_vars

\* newPosition(line, column) for a pair the program encodes
DoNewPosition ==
    \E q \in CodecInputs :
        /\ codec' = [set |-> TRUE, ln |-> q[1], col |-> q[2], p |-> newPosition(q[1], q[2])]
        /\ UNCHANGED <<docVars, mgrVars, pd, render, cx, ds, upd>>

NextCodec == DoNewPosition

\* positions made and read back
SpecCodec == Init /\ [][NextCodec]_vars

NextFold == DoWrite \/ DoPushFold \/ DoPopFold

\* the folds under construction
SpecFold == Init /\ [][NextFold]_vars

\* a highlight or a link is opened, the two stacks together MaxDepth deep
DoPushScope ==
    \E kind \in {"highlight", "link"} :
        /\ ~lookup.done
        /\ Len(d.highlightStack) + Len(d.linkStack) < MaxDepth
        /\ d' = IF kind = "highlight" THEN PushHighlight(d, "Comment")
                ELSE PushLink(d, "x.go", 3, 7)
        /\ UNCHANGED <<written, lookup, nonDocVars>>

\* the highlight or the link opened last on its stack is closed
DoPopScope ==
    \E stack \in {"highlightStack", "linkStack"} :
        /\ ~lookup.done
        /\ Len(d[stack]) > 0
        /\ d' = pop(d, stack)
        /\ UNCHANGED <<written, lookup, nonDocVars>>

NextRanges == DoWrite \/ DoPushScope \/ DoPopScope

\* links and highlights of one Doc under construction
SpecRanges == Init /\ [][NextRanges]_vars

----------------------------------------------------------------------------
(* Declarations: the syntax trees handed to docPrinter.printDecl.  A node   *)
(* is one record shape for every kind: k the node type, t a token (the      *)
(* keyword of a GenDecl, the Kind of a BasicLit), s a name or a literal's   *)
(* text, n a number (a position, a length, a distance), obj the object an   *)
(* identifier resolves to, ns the names of a Field or ValueSpec, c the      *)
(* child nodes in the order ast.Walk visits them.                           *)

NoObj == [kind |-> "", path |-> "", spec |-> FALSE, unquoted |-> FALSE]

\* an object declared in the package: a type, a variable
Obj(kind) == [kind |-> kind, path |-> "", spec |-> FALSE, unquoted |-> FALSE]

\* the object of an imported package name: its Decl is the ImportSpec, whose
\* Path.Value unquotes to path
PkgObj(path) == [kind |-> "pkg", path |-> path, spec |-> TRUE, unquoted |-> TRUE]

\* a package object whose import path does not unquote
BadPkgObj == [kind |-> "pkg", path |-> "", spec |-> TRUE, unquoted |-> FALSE]

Node(k, t, s, n, obj, ns, c) ==
    [k |-> k, t |-> t, s |-> s, n |-> n, obj |-> obj, ns |-> ns, c |-> c]

Nil == Node("nil", "", "", 0, NoObj, <<>>, <<>>)

Name(name, pos) == [name |-> name, pos |-> pos]

Ident(name, obj) == Node("Ident", "", name, 0, obj, <<>>, <<>>)

\* X.Sel, gap = Sel.Pos() - X.End()
SelectorExpr(x, sel, gap) == Node("SelectorExpr", "", sel, gap, NoObj, <<>>, <<x>>)

StarExpr(x) == Node("StarExpr", "", "", 0, NoObj, <<>>, <<x>>)

ParenExpr(x) == Node("ParenExpr", "", "", 0, NoObj, <<>>, <<x>>)

ArrayType(elt) == Node("ArrayType", "", "", 0, NoObj, <<>>, <<elt>>)

Field(names, type) == Node("Field", "", "", 0, NoObj, names, <<type>>)

FieldList(fields) == Node("FieldList", "", "", 0, NoObj, <<>>, fields)

FuncType(params, results) == Node("FuncType", "", "", 0, NoObj, <<>>, <<params, results>>)

FuncDecl(recv, name, pos, type) == Node("FuncDecl", "", name, pos, NoObj, <<>>, <<recv, type>>)

StructType(fields) == Node("StructType", "", "", 0, NoObj, <<>>, <<fields>>)

InterfaceType(methods) == Node("InterfaceType", "", "", 0, NoObj, <<>>, <<methods>>)

TypeSpec(name, pos, type) == Node("TypeSpec", "", name, pos, NoObj, <<>>, <<type>>)

ValueSpec(names, type, values) == Node("ValueSpec", "", "", 0, NoObj, names, <<type>> \o values)

GenDecl(tok, specs) == Node("GenDecl", tok, "", 0, NoObj, <<>>, specs)

\* a literal of kind tok whose Value has len bytes and reads as text
BasicLit(tok, text, len) == Node("BasicLit", tok, text, len, NoObj, <<>>, <<>>)

\* Type{elts..., 0, 0, ...}: more further elements that hold no identifier
CompositeLit(type, elts, more) == Node("CompositeLit", "", "", more, NoObj, <<>>, <<type>> \o elts)

----------------------------------------------------------------------------
(* declVisitor *)

predeclared ==
    { "bool", "byte", "complex128", "complex64", "error", "float32", "float64",
      "int16", "int32", "int64", "int8", "int", "rune", "string", "uint16",
      "uint32", "uint64", "uint8", "uint", "uintptr",
      "true", "false", "iota", "nil",
      "append", "cap", "close", "complex", "copy", "delete", "imag", "len",
      "make", "new", "panic", "print", "println", "real", "recover" }

\* ast.IsExported on the names the declarations below use: the first letter
\* is upper case
IsExported(name) == name \in {"T", "F", "M", "A", "I", "V", "E", "K", "S", "L", "Q", "R", "X",
                              "Writer", "Stringer", "Sprint"}

annotation(kind, data, pos) == [kind |-> kind, data |-> data, pos |-> pos]

ignoreName == <<annotation("noAnnotation", "", 0)>>

\* the longest string literal and the largest composite literal displayed
MaxStringLit == 128

MaxElts == 100

\* the anchor annotations of the names of one field or value
anchors(names, data) ==
    [i \in 1..Len(names) |-> annotation("anchorAnnotation", data, names[i].pos)]

\* a string literal the visitor replaces by "" and a comment
elidedLit(n) == n.k = "BasicLit" /\ n.t = "STRING" /\ n.n > MaxStringLit

\* a composite literal whose elements the visitor drops for a comment
elidedElts(n) == n.k = "CompositeLit" /\ (Len(n.c) - 1) + n.n > MaxElts

\* a mutant: the method's name is anchored without the receiver's base type
recvAnchorNoQualifier(n) ==
    IF Len(n.c[1].c) > 0 THEN <<annotation("anchorAnnotation", "", n.n)>> ELSE <<>>

\* the anchor of a method's name: the receiver's base type when the receiver
\* type is T or *T
recvAnchor(n) ==
    LET recv == n.c[1]
    IN  IF Len(recv.c) > 0
        THEN LET typ0 == recv.c[1].c[1]
                 typ  == IF typ0.k = "StarExpr" THEN typ0.c[1] ELSE typ0
             IN  IF typ.k = "Ident"
                 THEN <<annotation("anchorAnnotation", typ.s, n.n)>>
                 ELSE <<>>
        ELSE <<>>

\* Visit(n): the annotations ast.Walk(v, n) appends, in order
RECURSIVE Visit(_)
RECURSIVE walkList(_)
RECURSIVE walkMembers(_, _)

walkList(ns) ==
    IF ns = <<>> THEN <<>> ELSE Visit(Head(ns)) \o walkList(Tail(ns))

\* the fields of a struct or the methods of an interface named name
walkMembers(fields, name) ==
    IF fields = <<>> THEN <<>>
    ELSE anchors(Head(fields).ns, name) \o Visit(Head(fields).c[1])
         \o walkMembers(Tail(fields), name)

Visit(n) ==
    CASE n.k = "nil" -> <<>>
      [] n.k = "TypeSpec" ->
            <<annotation("anchorAnnotation", "", n.n)>>
            \o (IF n.c[1].k \in {"InterfaceType", "StructType"}
                THEN walkMembers(n.c[1].c[1].c, n.s)
                ELSE Visit(n.c[1]))
      [] n.k = "FuncDecl" ->
            (IF n.c[1].k = "nil"
             THEN <<annotation("anchorAnnotation", "", n.n)>>
             ELSE Visit(n.c[1]) \o recvAnchor(n))
            \o Visit(n.c[2])
      [] n.k = "Field" ->
            [i \in 1..Len(n.ns) |-> ignoreName[1]] \o Visit(n.c[1])
      [] n.k = "ValueSpec" ->
            anchors(n.ns, "") \o Visit(n.c[1]) \o walkList(Tail(n.c))
      [] n.k = "Ident" ->
            IF n.obj.kind = "" /\ n.s \in predeclared
            THEN <<annotation("linkAnnotation", "builtin", 0)>>
            ELSE IF n.obj.kind # "" /\ IsExported(n.s)
            THEN <<annotation("linkAnnotation", "", 0)>>
            ELSE ignoreName
      [] n.k = "SelectorExpr" ->
            LET x == n.c[1]
            IN  IF x.k = "Ident" /\ x.obj.kind = "pkg" /\ x.obj.spec /\ x.obj.unquoted
                THEN IF x.obj.path = "C"
                     THEN ignoreName \o ignoreName
                     ELSE IF n.n = 1
                     THEN <<annotation("startLinkAnnotation", x.obj.path, 0),
                            annotation("endLinkAnnotation", n.s, 0)>>
                     ELSE <<annotation("packageLinkAnnoation", x.obj.path, 0),
                            annotation("linkAnnotation", x.obj.path, 0)>>
                ELSE Visit(x) \o ignoreName
      [] n.k = "BasicLit" -> <<>>
      [] n.k = "CompositeLit" ->
            IF elidedElts(n) THEN Visit(n.c[1]) ELSE walkList(n.c)
      [] OTHER -> walkList(n.c)

----------------------------------------------------------------------------
(* The declaration as go/printer prints it after the visitor's changes, cut *)
(* into the tokens go/scanner returns: IDENT and COMMENT tokens, and OTHER  *)
(* for every other token together with the white space around it.           *)

Tok(tok, lit) == <<[tok |-> tok, lit |-> lit]>>

RECURSIVE printNode(_)
RECURSIVE printList(_, _)
RECURSIVE printNames(_)
RECURSIVE printMembers(_)

printNames(ns) ==
    IF ns = <<>> THEN <<>>
    ELSE Tok("IDENT", Head(ns).name)
         \o (IF Len(ns) > 1 THEN Tok("OTHER", ", ") ELSE <<>>)
         \o printNames(Tail(ns))

printList(ns, sep) ==
    IF ns = <<>> THEN <<>>
    ELSE printNode(Head(ns))
         \o (IF Len(ns) > 1 THEN Tok("OTHER", sep) ELSE <<>>)
         \o printList(Tail(ns), sep)

\* the results of a signature: none, one unnamed type, or a list
printResults(r) ==
    IF r.k = "nil" \/ r.c = <<>> THEN <<>>
    ELSE IF Len(r.c) = 1 /\ r.c[1].ns = <<>>
    THEN Tok("OTHER", " ") \o printNode(r.c[1])
    ELSE Tok("OTHER", " (") \o printList(r.c, ", ") \o Tok("OTHER", ")")

printSignature(ft) ==
    Tok("OTHER", "(") \o printList(ft.c[1].c, ", ") \o Tok("OTHER", ")")
    \o printResults(ft.c[2])

\* the lines of a struct's fields or an interface's methods
printMembers(fields) ==
    IF fields = <<>> THEN <<>>
    ELSE LET f == Head(fields)
         IN  Tok("OTHER", "    ")
             \o (IF f.c[1].k = "FuncType"
                 THEN printNames(f.ns) \o printSignature(f.c[1])
                 ELSE printNode(f))
             \o Tok("OTHER", NL)
             \o printMembers(Tail(fields))

printNode(n) ==
    CASE n.k = "nil" -> <<>>
      [] n.k = "Ident" -> Tok("IDENT", n.s)
      [] n.k = "SelectorExpr" -> printNode(n.c[1]) \o Tok("OTHER", ".") \o Tok("IDENT", n.s)
      [] n.k = "StarExpr" -> Tok("OTHER", "*") \o printNode(n.c[1])
      [] n.k = "ParenExpr" -> Tok("OTHER", "(") \o printNode(n.c[1]) \o Tok("OTHER", ")")
      [] n.k = "ArrayType" -> Tok("OTHER", "[]") \o printNode(n.c[1])
      [] n.k = "Field" ->
            printNames(n.ns) \o (IF n.ns = <<>> THEN <<>> ELSE Tok("OTHER", " "))
            \o printNode(n.c[1])
      [] n.k = "FuncType" -> Tok("OTHER", "func") \o printSignature(n)
      [] n.k = "FuncDecl" ->
            Tok("OTHER", "func ")
            \o (IF n.c[1].k = "nil" THEN <<>>
                ELSE Tok("OTHER", "(") \o printList(n.c[1].c, ", ") \o Tok("OTHER", ") "))
            \o Tok("IDENT", n.s) \o printSignature(n.c[2])
      [] n.k = "StructType" ->
            Tok("OTHER", "struct {") \o Tok("OTHER", NL) \o printMembers(n.c[1].c)
            \o Tok("OTHER", "}")
      [] n.k = "InterfaceType" ->
            Tok("OTHER", "interface {") \o Tok("OTHER", NL) \o printMembers(n.c[1].c)
            \o Tok("OTHER", "}")
      [] n.k = "TypeSpec" -> Tok("IDENT", n.s) \o Tok("OTHER", " ") \o printNode(n.c[1])
      [] n.k = "ValueSpec" ->
            printNames(n.ns)
            \o (IF n.c[1].k = "nil" THEN <<>> ELSE Tok("OTHER", " ") \o printNode(n.c[1]))
            \o (IF Len(n.c) = 1 THEN <<>>
                ELSE Tok("OTHER", " = ") \o printList(Tail(n.c), ", "))
      [] n.k = "GenDecl" -> Tok("OTHER", n.t) \o Tok("OTHER", " ") \o printList(n.c, "; ")
      [] n.k = "BasicLit" ->
            IF elidedLit(n)
            THEN Tok("COMMENT", "/* byte string literal not displayed */")
                 \o Tok("OTHER", "\"\"")
            ELSE Tok("OTHER", n.s)
      [] n.k = "CompositeLit" ->
            printNode(n.c[1]) \o Tok("OTHER", "{")
            \o (IF elidedElts(n)
                THEN Tok("COMMENT", "/* elements not displayed */")
                ELSE printList(Tail(n.c), ", ")
                     \o (IF n.n > 0 THEN Tok("OTHER", ", 0") ELSE <<>>))
            \o Tok("OTHER", "}")
      [] OTHER -> printList(n.c, ", ")

\* the number of IDENT tokens of a printed text
identCount(text) == Cardinality({i \in 1..Len(text) : text[i].tok = "IDENT"})

\* the literals of the tokens: the bytes of the printed text, as pieces
lits(text) == [i \in 1..Len(text) |-> text[i].lit]

\* the byte offset of piece i of buf
offsetOf(buf, i) == byteLen(SubSeq(buf, 1, i - 1))

\* buf[from:to]: the pieces that lie within the byte range
slice(buf, from, to) ==
    LET within == {i \in 1..Len(buf) : offsetOf(buf, i) >= from /\ offsetOf(buf, i + 1) <= to}
    IN  IF within = {} THEN <<>>
        ELSE SubSeq(buf, CHOOSE i \in within : \A j \in within : i <= j,
                         CHOOSE i \in within : \A j \in within : i >= j)

----------------------------------------------------------------------------
(* The declarations of a package's page *)

intT == Ident("int", NoObj)

errorT == Ident("error", NoObj)

\* T, a type of the package; u, an unexported variable of the package
typeT == Ident("T", Obj("typ"))

varU == Ident("u", Obj("var"))

fmtPkg == Ident("fmt", PkgObj("fmt"))

noParams == FuncType(FieldList(<<>>), Nil)

\* fmt.Writer written without a gap, and fmt . Sprint written with one
fmtWriter == SelectorExpr(fmtPkg, "Writer", 1)

fmtSprint == SelectorExpr(fmtPkg, "Sprint", 3)

\* func F(a int) T
funcF ==
    FuncDecl(Nil, "F", 5, FuncType(FieldList(<<Field(<<Name("a", 7)>>, intT)>>),
                                   FieldList(<<Field(<<>>, typeT)>>)))

\* func (t T) M()
methodValue ==
    FuncDecl(FieldList(<<Field(<<Name("t", 6)>>, typeT)>>), "M", 11, noParams)

\* func (t *T) M(w fmt.Writer) error
methodPointer ==
    FuncDecl(FieldList(<<Field(<<Name("t", 6)>>, StarExpr(typeT))>>), "M", 12,
             FuncType(FieldList(<<Field(<<Name("w", 14)>>, fmtWriter)>>),
                      FieldList(<<Field(<<>>, errorT)>>)))

\* func (t (T)) M()
methodParen ==
    FuncDecl(FieldList(<<Field(<<Name("t", 6)>>, ParenExpr(typeT))>>), "M", 13, noParams)

\* func (t (T)) M(w fmt.Writer)
methodParenWriter ==
    FuncDecl(FieldList(<<Field(<<Name("t", 6)>>, ParenExpr(typeT))>>), "M", 13,
             FuncType(FieldList(<<Field(<<Name("w", 15)>>, fmtWriter)>>), Nil))

\* type T struct { A, b int; fmt.Stringer }
typeStruct ==
    GenDecl("type", <<TypeSpec("T", 5,
        StructType(FieldList(<<Field(<<Name("A", 21), Name("b", 24)>>, intT),
                               Field(<<>>, SelectorExpr(fmtPkg, "Stringer", 1))>>)))>>)

\* type I interface { M(a int) error }
typeInterface ==
    GenDecl("type", <<TypeSpec("I", 5,
        InterfaceType(FieldList(<<Field(<<Name("M", 22)>>,
            FuncType(FieldList(<<Field(<<Name("a", 24)>>, intT)>>),
                     FieldList(<<Field(<<>>, errorT)>>)))>>)))>>)

\* type E []T
typeSlice == GenDecl("type", <<TypeSpec("E", 5, ArrayType(typeT))>>)

\* var V, w T = u.F, nil
varPair ==
    GenDecl("var", <<ValueSpec(<<Name("V", 4), Name("w", 7)>>, typeT,
                               <<SelectorExpr(varU, "F", 1), Ident("nil", NoObj)>>)>>)

\* const K = C.int
constC ==
    GenDecl("const", <<ValueSpec(<<Name("K", 6)>>, Nil,
                                 <<SelectorExpr(Ident("C", PkgObj("C")), "int", 1)>>)>>)

\* var Q = fmt . Sprint
varSpaced == GenDecl("var", <<ValueSpec(<<Name("Q", 4)>>, Nil, <<fmtSprint>>)>>)

\* var R = bad.X, the import path of bad not a valid string literal
varBadImport ==
    GenDecl("var", <<ValueSpec(<<Name("R", 4)>>, Nil,
                               <<SelectorExpr(Ident("bad", BadPkgObj), "X", 1)>>)>>)

\* var S = "...", a literal of 200 bytes, and var s = "s"
varLongString ==
    GenDecl("var", <<ValueSpec(<<Name("S", 4)>>, Nil, <<BasicLit("STRING", "\"...\"", 200)>>)>>)

varShortString ==
    GenDecl("var", <<ValueSpec(<<Name("s", 4)>>, Nil, <<BasicLit("STRING", "\"s\"", 3)>>)>>)

\* var L = []T{u, 0, 0, ...} of 101 elements, and var l = []T{u}
varBigLit ==
    GenDecl("var", <<ValueSpec(<<Name("L", 4)>>, Nil,
                               <<CompositeLit(ArrayType(typeT), <<varU>>, 100)>>)>>)

varSmallLit ==
    GenDecl("var", <<ValueSpec(<<Name("l", 4)>>, Nil,
                               <<CompositeLit(ArrayType(typeT), <<varU>>, 0)>>)>>)

\* func (t *T) M() int
methodInt ==
    FuncDecl(FieldList(<<Field(<<Name("t", 6)>>, StarExpr(typeT))>>), "M", 12,
             FuncType(FieldList(<<>>), FieldList(<<Field(<<>>, intT)>>)))

\* var P = fmt.Println
varPrintln ==
    GenDecl("var", <<ValueSpec(<<Name("P", 4)>>, Nil,
                               <<SelectorExpr(fmtPkg, "Println", 1)>>)>>)

\* func (t *T) M()
methodPlain ==
    FuncDecl(FieldList(<<Field(<<Name("t", 6)>>, StarExpr(typeT))>>), "M", 12, noParams)

Decls ==
    << funcF, methodValue, methodPointer, methodParen, methodParenWriter, typeStruct,
       typeInterface, typeSlice, varPair, constC, varSpaced, varBadImport,
       varLongString, varShortString, varBigLit, varSmallLit, methodInt, methodPlain,
       varPrintln >>

\* the place of a declaration in Decls
declIndex(decl) == CHOOSE k \in 1..Len(Decls) : Decls[k] = decl

----------------------------------------------------------------------------
(* docPrinter.printDecl *)

\* most declarations printed on one page
MaxDecls == 2

declGroup == "Special"

commentGroup == "Comment"

\* a mutant: pages are named by the bare import path
noNamePrefix == ""

bufNamePrefix == "godoc://"

\* p.Build.Dir and the file of the declarations
BuildDir == "/src/p"

\* p.FSet.Position(pos), for a file t.go whose lines are ten bytes long
Position(pos) ==
    [Filename |-> "t.go", Line |-> (pos \div 10) + 1, Column |-> (pos % 10) + 1]

\* a mutant: the anchor is registered under the bare name
addAnchorBare(doc, name, typeName) == AddAnchor(doc, name)

\* docPrinter.addAnchor
addAnchor(doc, name, typeName) ==
    AddAnchor(doc, IF typeName # "" THEN typeName \o "." \o name ELSE name)

\* a mutant: the loop does not look at the queue before it takes its head
noUnderflowCheck(annotations) == FALSE

\* the loop stops annotating: no annotation is left for an identifier
underflow(annotations) == Len(annotations) = 0

\* a switch whose endLink case writes the identifier and leaves the link open
annotateNoPopLink(doc, a, rest, lit) ==
    CASE a.kind = "startLinkAnnotation" ->
            WriteString(PushLinkAnchor(doc,
                                       IF a.data # "" THEN bufNamePrefix \o a.data ELSE "",
                                       rest[1].data),
                        lit)
      [] a.kind = "endLinkAnnotation" -> WriteString(doc, lit)
      [] a.kind = "linkAnnotation" ->
            WriteLinkAnchor(doc, lit, IF a.data # "" THEN bufNamePrefix \o a.data ELSE "", lit)
      [] a.kind = "packageLinkAnnoation" ->
            WriteLinkAnchor(doc, lit, bufNamePrefix \o a.data, "")
      [] a.kind = "anchorAnnotation" ->
            LET pos == Position(a.pos)
            IN  WriteLink(addAnchor(doc, lit, a.data), lit,
                          BuildDir \o "/" \o pos.Filename, pos.Line, pos.Column)
      [] OTHER -> WriteString(doc, lit)

\* the switch on the kind of the annotation a taken for the identifier lit,
\* rest the annotations that follow a
annotate(doc, a, rest, lit) ==
    CASE a.kind = "startLinkAnnotation" ->
            WriteString(PushLinkAnchor(doc,
                                       IF a.data # "" THEN bufNamePrefix \o a.data ELSE "",
                                       rest[1].data),
                        lit)
      [] a.kind = "endLinkAnnotation" -> PopLink(WriteString(doc, lit))
      [] a.kind = "linkAnnotation" ->
            WriteLinkAnchor(doc, lit, IF a.data # "" THEN bufNamePrefix \o a.data ELSE "", lit)
      [] a.kind = "packageLinkAnnoation" ->
            WriteLinkAnchor(doc, lit, bufNamePrefix \o a.data, "")
      [] a.kind = "anchorAnnotation" ->
            LET pos == Position(a.pos)
            IN  WriteLink(addAnchor(doc, lit, a.data), lit,
                          BuildDir \o "/" \o pos.Filename, pos.Line, pos.Column)
      [] OTHER -> WriteString(doc, lit)

\* an end of printDecl that leaves out the text after the last annotated token
finishDropsRest(doc, buf, lastOffset) ==
    PopHighlight(Write(doc, <<NL, NL>>))

\* what follows the loop: the rest of the text, the blank line, and the
\* deferred PopHighlight
finish(doc, buf, lastOffset) ==
    PopHighlight(Write(Write(doc, slice(buf, lastOffset, byteLen(buf))), <<NL, NL>>))

\* printDecl(decl) up to its loop: the walk, the print, the scanner, the
\* highlight of the declaration; or the printer's error written to the page
printDecl ==
    \E k \in 1..Len(Decls), err \in BOOLEAN :
        /\ pd.phase = "idle"
        /\ pd.n < MaxDecls
        /\ IF err
           THEN /\ d' = WriteString(d, "error")
                /\ pd' = [pd EXCEPT !.n = @ + 1, !.decl = 0, !.underflow = FALSE]
           ELSE /\ d' = PushHighlight(d, declGroup)
                /\ pd' = [pd EXCEPT !.phase = "loop", !.decl = k,
                                    !.annotations = Visit(Decls[k]),
                                    !.text = printNode(Decls[k]),
                                    !.i = 1, !.lastOffset = 0,
                                    !.nAnn = Len(Visit(Decls[k])),
                                    !.nIdent = identCount(printNode(Decls[k])),
                                    !.underflow = FALSE,
                                    !.startLen = Len(d.buf)]
        /\ UNCHANGED <<written, lookup, mgrVars, otherVars>>

\* s.Scan() returns token i of the text
scanned(tok) ==
    /\ pd.phase = "loop"
    /\ pd.i <= Len(pd.text)
    /\ pd.text[pd.i].tok = tok

ScanComment ==
    /\ scanned("COMMENT")
    /\ LET buf    == lits(pd.text)
           lit    == buf[pd.i]
           offset == offsetOf(buf, pd.i)
       IN  /\ d' = PopHighlight(WriteString(PushHighlight(
                       Write(d, slice(buf, pd.lastOffset, offset)), commentGroup), lit))
           /\ pd' = [pd EXCEPT !.i = @ + 1, !.lastOffset = offset + Len(lit)]
    /\ UNCHANGED <<written, lookup, mgrVars, otherVars>>

ScanIdent ==
    /\ scanned("IDENT")
    /\ LET buf    == lits(pd.text)
           lit    == buf[pd.i]
           offset == offsetOf(buf, pd.i)
           d1     == Write(d, slice(buf, pd.lastOffset, offset))
       IN  IF underflow(pd.annotations)
           THEN /\ d' = finish(d, buf, pd.lastOffset)
                /\ pd' = [pd EXCEPT !.phase = "idle", !.n = @ + 1,
                                    !.underflow = TRUE, !.underflows = @ + 1,
                                    !.linksAtBreak = Len(d.links),
                                    !.anchorsAtBreak = DOMAIN d.anchors]
           ELSE IF \/ pd.annotations = <<>>
                   \/ /\ Head(pd.annotations).kind = "startLinkAnnotation"
                      /\ Tail(pd.annotations) = <<>>
                   \/ /\ Head(pd.annotations).kind = "endLinkAnnotation"
                      /\ d1.linkStack = <<>>
           THEN \* an index out of range: v.annotations[0], or the pop of an
                \* empty link stack
                /\ pd' = [pd EXCEPT !.phase = "panic"]
                /\ d' = d
           ELSE /\ d' = annotate(d1, Head(pd.annotations), Tail(pd.annotations), lit)
                /\ pd' = [pd EXCEPT !.annotations = Tail(@), !.i = @ + 1,
                                    !.lastOffset = offset + Len(lit)]
    /\ UNCHANGED <<written, lookup, mgrVars, otherVars>>

\* a token that is neither a comment nor an identifier
ScanOther ==
    /\ scanned("OTHER")
    /\ pd' = [pd EXCEPT !.i = @ + 1]
    /\ UNCHANGED <<d, written, lookup, mgrVars, otherVars>>

ScanEOF ==
    /\ pd.phase = "loop"
    /\ pd.i > Len(pd.text)
    /\ d' = finish(d, lits(pd.text), pd.lastOffset)
    /\ pd' = [pd EXCEPT !.phase = "idle", !.n = @ + 1]
    /\ UNCHANGED <<written, lookup, mgrVars, otherVars>>

NextDecl == printDecl \/ ScanComment \/ ScanIdent \/ ScanOther \/ ScanEOF

\* the declarations of a page printed one after the other
SpecDecl == Init /\ [][NextDecl]_vars

----------------------------------------------------------------------------
(* Scope stack: tiling *)

\* the records of recs whose range [start, end) holds address a
covering(recs, a) == { i \in 1..Len(recs) : recs[i].start <= a /\ a < recs[i].end }

\* the addresses of the bytes of the w-th piece written
bytesOf(w) == written[w].addr .. (written[w].addr + written[w].len - 1)

\* C3: once the pushes and pops are balanced (the highlight stack is empty
\* again), every byte written while a frame of value v was on top lies in
\* exactly one emitted record and that record carries v, and a byte written
\* while the stack was empty lies in no record.
C3_RecordsTileScopes ==
    d.highlightStack = <<>> =>
        \A w \in 1..Len(written) : \A a \in bytesOf(w) :
            LET c == covering(d.highlights, a)
            IN  IF written[w].highlight.kind = "none"
                THEN c = {}
                ELSE /\ Cardinality(c) = 1
                     /\ \A i \in c : d.highlights[i].group = written[w].highlight.group

\* a balanced construction with a nested scope: text before, inside and
\* after an inner scope of another group
C3_Witness ==
    /\ d.highlightStack = <<>>
    /\ Len(d.highlights) >= 3
    /\ d.highlights[1].group # d.highlights[2].group
    /\ d.highlights[1].group = d.highlights[3].group

----------------------------------------------------------------------------
(* Link lookup *)

\* link i of the Doc holds address p
inside(i, p) == d.links[i].start <= p /\ p < d.links[i].end

\* C1: findLink returns a link only if the address asked for lies inside it.
C1_FoundLinkHoldsAddress ==
    (lookup.done /\ lookup.link # 0) =>
        inside(lookup.link, newPosition(lookup.ln, lookup.col))

\* C10: for a link that starts and ends on one line L, findLink(L, c) returns
\* that link for every column c with start <= encode(L, c) < end.
C10_OneLineLinkIsFound ==
    lookup.done =>
        \A i \in 1..Len(d.links) :
            ( /\ positionLine(d.links[i].start) = lookup.ln
              /\ positionLine(d.links[i].end) = lookup.ln
              /\ inside(i, newPosition(lookup.ln, lookup.col)) )
            => lookup.link = i

\* a lookup inside the second of two links that touch on one line
C10_Witness ==
    /\ lookup.done
    /\ lookup.link = 2
    /\ d.links[1].end = d.links[2].start
    /\ positionLine(d.links[2].start) = lookup.ln
    /\ positionLine(d.links[2].end) = lookup.ln
    /\ inside(2, newPosition(lookup.ln, lookup.col))

----------------------------------------------------------------------------
(* Manager: pages, registry, lock, overlays *)

\* C2: when printDoc fails, Display is called with a Doc that is not nil and
\* whose text is the error message, and the handler does not panic.
C2_ErrorPageDisplayed ==
    \A t \in Slots :
        (procs[t].h = "onBufReadCmd" /\ procs[t].printErr) =>
            /\ ~procs[t].doc.nil
            /\ Pages[procs[t].doc.page].buf = ErrorDoc.buf
            /\ procs[t].pc # "panic"

\* C4: once onBufDelete(b) has been processed, the registry holds no entry
\* for b unless a display of b was started afterwards.
C4_NoEntryAfterClose == \A b \in closed : docs[b] = NoData

\* the handler in slot t waits for a call into the editor to return
callPending(t) ==
    procs[t].pc \in {"Execute", "Command", "CurrentWindow", "matchdelete", "matchaddpos"}

\* C5: while a call into the editor is pending, the registry lock is not held.
C5_NoCallUnderLock == (\E t \in Slots : callPending(t)) => mu = 0

\* C6: when the hover that returned last (without an error, no other hover
\* running) was at a position inside no link of the page, its window has no
\* overlay: none recorded by the manager, none in the editor.
C6_OffLinkClearsOverlay ==
    ( /\ lastRet.h = "onUpdateHighlight"
      /\ ~lastRet.err
      /\ ~lastRet.p.hit
      /\ \A t \in Slots : procs[t].h # "onUpdateHighlight" ) =>
        /\ ~highlights[lastRet.p.w].set
        /\ matches[lastRet.p.w] = {}

\* the link applied in the window when the hover that returned last compared
oldLinkOf(p) == IF p.old.set THEN p.old.link ELSE NoLink

\* the hover that returned last got as far as comparing the links
compared(r) == r.h = "onUpdateHighlight" /\ r.p.pc # "CurrentWindow"

----------------------------------------------------------------------------
(* Declarations: annotations against identifier tokens *)

\* C8: for every declaration the visitor accepts, a method with any form of
\* receiver type included, the visitor queues exactly as many annotations as
\* the printed text of the declaration has identifier tokens.
C8_AnnotationsMatchIdentifiers ==
    pd.phase = "loop" => pd.nAnn = pd.nIdent

\* the text the last call of printDecl put on the page, as pieces
declText == SubSeq(d.buf, pd.startLen + 1, Len(d.buf))

\* C9: when no annotation is left at an identifier token, printDecl stops
\* annotating: it does not panic, it puts the whole text of the declaration
\* and the blank line on the page, it adds no link and no anchor after that
\* point, and it returns with both scope stacks as it found them, so that the
\* page goes on with the declarations that follow.
C9_UnderflowDegradesOnlyTheDeclaration ==
    /\ pd.phase # "panic"
    /\ (pd.phase = "idle" /\ pd.underflow) =>
           /\ declText = lits(pd.text) \o <<NL, NL>>
           /\ Len(d.links) = pd.linksAtBreak
           /\ DOMAIN d.anchors = pd.anchorsAtBreak
           /\ d.linkStack = <<>>
           /\ d.highlightStack = <<>>

\* a declaration ran out of annotations, and the declaration printed after it
\* is on the page with its links
C9_Witness ==
    /\ pd.phase = "idle"
    /\ pd.n = 2
    /\ pd.underflows = 1
    /\ ~pd.underflow
    /\ pd.decl = 3
    /\ Len(d.links) > pd.linksAtBreak
    /\ declText = lits(printNode(methodPointer)) \o <<NL, NL>>

----------------------------------------------------------------------------
(* Declarations: the annotations of a method *)

\* the kind and the data of each annotation of a queue
kinds(q) == [i \in 1..Len(q) |-> <<q[i].kind, q[i].data>>]

\* printDecl has walked and printed decl and stands before its first token
walked(decl) == pd.phase = "loop" /\ pd.decl = declIndex(decl) /\ pd.i = 1

\* C11 as stated: for func (t *T) M() int the visitor queues ignore for t and
\* for T, the anchor of M qualified by T, and ignore for int.
C11_ReceiverAndResultIgnored ==
    walked(methodInt) =>
        kinds(pd.annotations) = << <<"noAnnotation", "">>, <<"noAnnotation", "">>,
                                   <<"anchorAnnotation", "T">>, <<"noAnnotation", "">> >>

\* C11 amended: for func (t *T) M() int the visitor queues ignore for t, a
\* link within the page for the exported type T, the anchor of M qualified by
\* T, and a link to the builtin page for int.
C11_MethodAnnotations ==
    walked(methodInt) =>
        kinds(pd.annotations) = << <<"noAnnotation", "">>, <<"linkAnnotation", "">>,
                                   <<"anchorAnnotation", "T">>,
                                   <<"linkAnnotation", "builtin">> >>

C11_Witness == walked(methodInt) /\ pd.nAnn = 4 /\ pd.nIdent = 4

----------------------------------------------------------------------------
(* Declarations: anchors *)

\* the (line, column) of the first byte of piece j of a page, counted from
\* the text: one line per newline before it, one column per byte since
pieceAddr(buf, j) ==
    LET nls  == {i \in 1..(j - 1) : buf[i] = NL}
        last == IF nls = {} THEN 0 ELSE CHOOSE i \in nls : \A k \in nls : k <= i
    IN  <<1 + Cardinality(nls), 1 + byteLen(SubSeq(buf, last + 1, j - 1))>>

\* the names that qualify an anchor: the types of the declarations
Qualifiers == {"T", "I"}

\* the anchor name stands at the first byte of the token it names
anchored(name) ==
    \E j \in 1..Len(d.buf) :
        /\ pieceAddr(d.buf, j) = d.anchors[name]
        /\ \/ name = d.buf[j]
           \/ \E q \in Qualifiers : name = q \o "." \o d.buf[j]

\* the last call of printDecl printed decl and has returned
printed(decl) == pd.phase = "idle" /\ pd.decl = declIndex(decl)

\* C12: an anchor annotation registers qualifier "." token, the bare token
\* without a qualifier, at the line and column where the first byte of the
\* token is written; for func (t *T) M() the anchor T.M is registered and
\* points at the start of M.
C12_AnchorAtTokenStart ==
    /\ \A name \in DOMAIN d.anchors : anchored(name)
    /\ printed(methodPlain) =>
           /\ "T.M" \in DOMAIN d.anchors
           /\ \E j \in (pd.startLen + 1)..Len(d.buf) :
                  d.buf[j] = "M" /\ pieceAddr(d.buf, j) = d.anchors["T.M"]
    /\ printed(funcF) => "F" \in DOMAIN d.anchors
    /\ printed(typeStruct) => {"T", "T.A", "T.b"} \subseteq DOMAIN d.anchors

\* the second declaration of a page is func (t *T) M(): its anchor is on a
\* later line
C12_Witness ==
    /\ printed(methodPlain)
    /\ pd.n = 2
    /\ "T.M" \in DOMAIN d.anchors
    /\ d.anchors["T.M"][1] > 1

----------------------------------------------------------------------------
(* Declarations: qualified references *)

\* the address of the first byte of piece j of the page, as a position
piecePos(j) == newPosition(pieceAddr(d.buf, j)[1], pieceAddr(d.buf, j)[2])

\* link record l covers exactly the token tok that the last declaration put
\* on the page
coversToken(l, tok) ==
    \E j \in (pd.startLen + 1)..Len(d.buf) :
        /\ d.buf[j] = tok
        /\ l.start = piecePos(j)
        /\ l.end = piecePos(j) + Len(tok)

\* link record l runs from the first byte of token a to the last of token b
coversTokens(l, a, b) ==
    \E j \in (pd.startLen + 1)..Len(d.buf), k \in (pd.startLen + 1)..Len(d.buf) :
        /\ d.buf[j] = a /\ d.buf[k] = b /\ j < k
        /\ l.start = piecePos(j)
        /\ l.end = piecePos(k) + Len(b)

\* the path a link record names
pathOf(l) == d.strings[l.path + 1]

\* the anchor a link record names: "" when it names none
anchorOf(l) ==
    IF positionLine(l.address) = 0 /\ positionColumn(l.address) >= 0
    THEN d.strings[positionColumn(l.address) + 1]
    ELSE ""

\* the link records printDecl added for a value declared as pkg sym: after
\* the link of the declared name, one record for the package token and one
\* for the symbol token, both to the page of the package
twoLinks(decl, pkg, sym) ==
    /\ walked(decl) =>
           kinds(pd.annotations) = << <<"anchorAnnotation", "">>,
                                      <<"packageLinkAnnoation", pkg>>,
                                      <<"linkAnnotation", pkg>> >>
    /\ printed(decl) =>
           LET n == Len(d.links)
           IN  /\ n >= 3
               /\ coversToken(d.links[n - 1], pkg)
               /\ coversToken(d.links[n], sym)
               /\ pathOf(d.links[n - 1]) = "godoc://" \o pkg
               /\ pathOf(d.links[n]) = "godoc://" \o pkg

\* C13 as stated: a qualified reference such as fmt.Println yields
\* packageLink("fmt"), link("fmt") and two link records, one on the package
\* token and one on the symbol token, both to the page of fmt.
C13_QualifiedReferenceTwoLinks ==
    /\ twoLinks(varPrintln, "fmt", "Println")
    /\ twoLinks(varSpaced, "fmt", "Sprint")

\* C13 amended: written with space between the package name and the symbol
\* (fmt . Sprint) the reference yields packageLink("fmt"), link("fmt") and two
\* link records as stated; written fmt.Println it yields startLink("fmt"),
\* endLink("Println") and one link record from the first byte of fmt to the
\* last of Println, to the anchor Println of the page of fmt.
C13_QualifiedReferenceLinks ==
    /\ twoLinks(varSpaced, "fmt", "Sprint")
    /\ printed(varSpaced) => anchorOf(d.links[Len(d.links)]) = "Sprint"
                             /\ anchorOf(d.links[Len(d.links) - 1]) = ""
    /\ walked(varPrintln) =>
           kinds(pd.annotations) = << <<"anchorAnnotation", "">>,
                                      <<"startLinkAnnotation", "fmt">>,
                                      <<"endLinkAnnotation", "Println">> >>
    /\ printed(varPrintln) =>
           LET n == Len(d.links)
           IN  /\ n >= 2
               /\ coversTokens(d.links[n], "fmt", "Println")
               /\ coversToken(d.links[n - 1], "P")
               /\ pathOf(d.links[n]) = "godoc://fmt"
               /\ anchorOf(d.links[n]) = "Println"

\* both forms are on one page
C13_Witness ==
    /\ printed(varPrintln)
    /\ pd.n = 2
    /\ Len(d.links) = 5
    /\ pathOf(d.links[2]) = "godoc://fmt"
    /\ anchorOf(d.links[2]) = ""
    /\ anchorOf(d.links[3]) = "Sprint"

----------------------------------------------------------------------------
(* Link records: order *)

\* C14: after any pushes and pops of links between writes, each link record
\* ends at or before the start of the next: the records do not overlap and
\* their ends increase strictly.
C14_LinksOrdered ==
    \A i \in 1..(Len(d.links) - 1) :
        /\ d.links[i].end <= d.links[i + 1].start
        /\ d.links[i].end < d.links[i + 1].end

\* an outer link was cut around an inner one: three records, the stack empty
C14_Witness ==
    /\ Len(d.links) = 3
    /\ d.linkStack = <<>>
    /\ d.links[1].address = d.links[3].address
    /\ d.links[1].address # d.links[2].address

----------------------------------------------------------------------------
(* Records and folds: never empty *)

\* C15: every link record and every highlight record of a Doc starts before
\* it ends: a push followed at once by its pop, and a push at the address
\* where the frame below starts, leave no record.
C15_RecordsNotEmpty ==
    /\ \A i \in 1..Len(d.links) : d.links[i].start < d.links[i].end
    /\ \A i \in 1..Len(d.highlights) : d.highlights[i].start < d.highlights[i].end

\* a link was written, then two highlights were opened at one address: no
\* highlight record
C15_Witness ==
    /\ Len(d.links) = 1
    /\ Len(d.highlightStack) = 2
    /\ d.highlightStack[1].start = d.highlightStack[2].start
    /\ d.highlights = <<>>

\* C16: after any PushFold and PopFold between writes, every fold of the Doc
\* ends on a later line than it starts, the end line being the line of the
\* closing address, less one when the closing column is 1.
C16_FoldsSpanLines ==
    \A i \in 1..Len(d.folds) : d.folds[i].end > d.folds[i].start

\* a fold opened on line 1 and closed at line 3, column 1: it ends on line 2
C16_Witness ==
    /\ d.folds = <<[start |-> 1, end |-> 2]>>
    /\ d.foldStack = <<>>
    /\ d.buf = <<"a", NL, NL>>

----------------------------------------------------------------------------
(* Position: encode and decode *)

\* C17: line() and column() of newPosition(line, column) give back the line
\* and the column, for lines from 0 and columns from 0 below 10000, and for the
\* pair (0, -1) of a link without anchor.
C17_PositionRoundTrip ==
    codec.set => /\ positionLine(codec.p) = codec.ln
                 /\ positionColumn(codec.p) = codec.col

\* the pair (0, -1) was encoded
C17_Witness == codec.set /\ codec.ln = 0 /\ codec.col = -1 /\ codec.p = -1

----------------------------------------------------------------------------
(* Manager: what a jump asks of the editor *)

\* the targets the links of the pages were created with, link by link: the
\* path, and the (line, column) of PushLink or the anchor of PushLinkAnchor
Targets ==
    << << [path |-> "", cursor |-> <<>>, anchor |-> "X"],
          [path |-> "x.go", cursor |-> <<3, 7>>, anchor |-> NIL] >>,
       << [path |-> "godoc://p", cursor |-> <<>>, anchor |-> NIL] >>,
       << >> >>

\* the handler in slot t has just resolved a link and joined its commands
jumped(t) == procs[t].pc # "Command" /\ procs'[t].pc = "Command"

\* C18: onJump on a resolved link asks to edit the target path when, and only
\* when, the path the link was created with is not empty; it moves the cursor
\* to the (line, column) of a link created by PushLink with line > 0, and
\* looks up the anchor of a link created by PushLinkAnchor with an anchor.
C18_JumpFollowsTarget ==
    [][\A t \in Slots :
          jumped(t) =>
              LET target == Targets[docs[procs'[t].b].page][procs'[t].newLink.i]
                  cmd    == procs'[t].cmd
              IN  /\ cmd.edit = target.path
                  /\ cmd.cursor = target.cursor
                  /\ cmd.anchor = target.anchor]_vars

\* jumps were sent for a link with an anchor on this page and for a link with
\* an address in a file
C18_Witness ==
    /\ procs[1].pc = "Command"
    /\ procs[1].cmd = [edit |-> "", cursor |-> <<>>, anchor |-> "X"]
    /\ procs[2].pc = "Command"
    /\ procs[2].cmd = [edit |-> "x.go", cursor |-> <<3, 7>>, anchor |-> NIL]

----------------------------------------------------------------------------
(* Manager: a click or a hover off every link *)

\* link record lk holds the position (ln, col)
holds(lk, ln, col) == lk.start <= newPosition(ln, col) /\ newPosition(ln, col) < lk.end

\* C19: a click or a hover at a position that resolves to no link, no page
\* being registered for the buffer or no link holding the position, does
\* nothing and fails with nothing: onJump sends no command, and
\* onUpdateHighlight, no overlay being applied in the window, makes no overlay
\* call, records nothing for the window and returns nil.
C19_OffLinkDoesNothing ==
    /\ \A t \in Slots :
           (procs[t].pc = "Command" /\ docs[procs[t].b].id = procs[t].newLink.data) =>
               holds(linkOf(docs[procs[t].b].page, procs[t].newLink),
                     procs[t].ln, procs[t].col)
    /\ ( /\ lastRet.h = "onUpdateHighlight"
         /\ lastRet.p.pc # "CurrentWindow"
         /\ ~lastRet.p.hit
         /\ ~lastRet.p.old.set ) =>
           /\ ~lastRet.err
           /\ lastRet.p.calls = <<>>

----------------------------------------------------------------------------
(* Manager: what Display registers *)

\* the handler that returned last is a Display that succeeded
displayed == lastRet.h = "onBufReadCmd" /\ ~lastRet.err /\ lastRet.p.pc = "store"

\* C20: when Display(d, b) has returned nil the registry maps b to the data of
\* d, whatever it held for b before, a lookup for b resolves to a link of that
\* data or to none, and the step that registered d changed the entry of no
\* other buffer.
C20_DisplayRegistersPage ==
    /\ [](displayed =>
              /\ docs[lastRet.p.b] = [id |-> lastRet.p.doc.id, page |-> lastRet.p.doc.page]
              /\ \A q \in Positions :
                     findLink(lastRet.p.b, q[1], q[2]).data \in {0, lastRet.p.doc.id})
    /\ [][\A t \in Slots :
              (procs[t].pc = "store" /\ procs'[t].pc # "store") =>
                  \A b \in Buffers \ {procs[t].b} : docs'[b] = docs[b]]_vars

\* three pages were made; buffer 1 shows the third, buffer 2 the second
C20_Witness ==
    /\ displayed
    /\ lastRet.p.b = 1
    /\ docs[1] = [id |-> 3, page |-> 2]
    /\ docs[2] = [id |-> 2, page |-> 1]
    /\ findLink(1, 1, 1) = [data |-> 3, i |-> 1]

----------------------------------------------------------------------------
(* print(uri, cwd): the page of a specifier (package doc, 2015)            *)

\* the longest specifier, in tokens
MaxURI == 5

\* the tokens a specifier is made of: an import path, the separators parseURI
\* looks for, and names
URITokens == {"fmt", "#", ".", "T", "M", "V"}

URIs == UNION {[1..n -> URITokens] : n \in 0..MaxURI}

\* strings.Index: the first index of tok in s, counted from 1, or 0
Index(s, tok) ==
    IF \E i \in 1..Len(s) : s[i] = tok
    THEN CHOOSE i \in 1..Len(s) : s[i] = tok /\ \A j \in 1..(i - 1) : s[j] # tok
    ELSE 0

\* parseURI after strings.TrimPrefix(s, protoSlashSlash): the specifier is
\* split at the first "#", and what follows it at the first "."
parseURI(s) ==
    LET i == Index(s, "#")
        r == SubSeq(s, i + 1, Len(s))
        j == Index(r, ".")
    IN  IF i = 0 THEN [importPath |-> s, symbol |-> <<>>, method |-> <<>>]
        ELSE IF j = 0
             THEN [importPath |-> SubSeq(s, 1, i - 1), symbol |-> r, method |-> <<>>]
             ELSE [importPath |-> SubSeq(s, 1, i - 1), symbol |-> SubSeq(r, 1, j - 1),
                   method |-> SubSeq(r, j + 1, Len(r))]

\* what util.LoadPackage can answer for an import path: an error, a directory
\* with no Go package (Doc nil), a command, a package
Loads == {"error", "nodoc", "main", "pkg"}

\* the loaded package's documentation: one variable, one function, one type
\* with one method
PkgValues == {<<"V">>}

PkgFuncs == {<<"M">>}

PkgTypes == {<<"T">>}

PkgMethods == {<<"M">>}

\* printer.symbolPage: the value, function or type named symbol, else nothing
\* is printed
symbolPage(symbol) ==
    IF symbol \in PkgValues THEN "value"
    ELSE IF symbol \in PkgFuncs THEN "func"
    ELSE IF symbol \in PkgTypes THEN "type"
    ELSE "empty"

\* printer.methodPage: the method of the type named symbol, else nothing is
\* printed
methodPage(symbol, method) ==
    IF symbol \in PkgTypes /\ method \in PkgMethods THEN "method" ELSE "empty"

\* a print whose symbol and method pages fail when the name is not found
printMissingFails(s, load) ==
    LET u == parseURI(s)
        page == IF u.method # <<>> THEN methodPage(u.symbol, u.method)
                ELSE symbolPage(u.symbol)
    IN  IF u.importPath = <<>> THEN [page |-> "directory", err |-> FALSE]
        ELSE IF load = "error" THEN [page |-> "nil", err |-> TRUE]
        ELSE IF load = "nodoc" THEN [page |-> "directory", err |-> FALSE]
        ELSE IF u.method # <<>> \/ u.symbol # <<>>
             THEN IF page = "empty" THEN [page |-> "nil", err |-> TRUE]
                  ELSE [page |-> page, err |-> FALSE]
        ELSE IF load = "main" THEN [page |-> "command", err |-> FALSE]
        ELSE [page |-> "package", err |-> FALSE]

\* print: the page printed for the specifier s when the loader answers load;
\* page "nil" is the nil slice returned with an error
print(s, load) ==
    LET u == parseURI(s)
    IN  IF u.importPath = <<>> THEN [page |-> "directory", err |-> FALSE]
        ELSE IF load = "error" THEN [page |-> "nil", err |-> TRUE]
        ELSE IF load = "nodoc" THEN [page |-> "directory", err |-> FALSE]
        ELSE IF u.method # <<>>
             THEN [page |-> methodPage(u.symbol, u.method), err |-> FALSE]
        ELSE IF u.symbol # <<>> THEN [page |-> symbolPage(u.symbol), err |-> FALSE]
        ELSE IF load = "main" THEN [page |-> "command", err |-> FALSE]
        ELSE [page |-> "package", err |-> FALSE]

\* the call of print that fills the buffer of a page: the loader is asked only
\* for a non-empty import path
DoPrint ==
    /\ ~render.called
    /\ \E s \in URIs, proto \in BOOLEAN, load \in Loads \cup {"none"} :
        /\ load = "none" <=> parseURI(s).importPath = <<>>
        /\ render' = [called |-> TRUE, proto |-> proto, uri |-> s, load |-> load,
                      page |-> print(s, load).page, err |-> print(s, load).err]
    /\ UNCHANGED <<docVars, mgrVars, pd, codec, cx, ds, upd>>

NextPrint == DoPrint

SpecPrint == Init /\ [][NextPrint]_vars

\* C21: a print call returns an error exactly when loading the package
\* failed; for every specifier whose package loads - a package page, a
\* "#Symbol" page, a "#Symbol.Method" page, the name found or not - it returns
\* a page (not nil) and a nil error.
C21_ErrorOnlyFromLoad ==
    render.called =>
        /\ render.err <=> render.load = "error"
        /\ render.err <=> render.page = "nil"

C21_Witness ==
    /\ render.called
    /\ render.uri = <<"fmt", "#", "T", ".", "V">>
    /\ render.load = "pkg"
    /\ render.page = "empty"
    /\ ~render.err

----------------------------------------------------------------------------
(* context.Get: the cached context of the last environment asked for       *)

\* the number of times callers change a field of an Env they hold
MaxMutations == 3

\* build.Default, field by field
BuildDefault == [f \in Fields |-> "default"]

\* the build context Get makes for an environment: each non-empty field of
\* env replaces the default
buildFor(env) == [f \in Fields |-> IF env[f] # "" THEN env[f] ELSE BuildDefault[f]]

\* a caller assigns a field of the Env value it holds
MutateEnv ==
    /\ cx.mutations < MaxMutations
    /\ \E c \in Callers, f \in Fields, v \in EnvValues :
        /\ cx.heap[c][f] # v
        /\ cx' = [cx EXCEPT !.heap[c][f] = v, !.mutations = @ + 1]
    /\ UNCHANGED <<docVars, mgrVars, pd, codec, render, ds, upd>>

\* Get(env), env the address of caller c's Env: under the package lock, the
\* cached ctx is returned when *ctx.env == *env, both read through the
\* pointers now; otherwise a new ctx is built that keeps the pointer env.
\* built is history: the field values the ctx was built from.
Get ==
    /\ \E c \in Callers :
        LET env == cx.heap[c]
            hit == cx.ctx.env # 0 /\ cx.heap[cx.ctx.env] = env
            new == IF hit THEN cx.ctx
                   ELSE [env |-> c, built |-> env, Build |-> buildFor(env)]
        IN  cx' = [cx EXCEPT !.ctx = new,
                             !.got = [env |-> c, asked |-> env, cached |-> hit,
                                      Build |-> new.Build]]
    /\ UNCHANGED <<docVars, mgrVars, pd, codec, render, ds, upd>>

NextContext == MutateEnv \/ Get

SpecContext == Init /\ [][NextContext]_vars

\* C22: the context a Get call returns is one for the environment asked for:
\* its Build setting equals every non-empty field of the Env passed, and the
\* cached context is returned only when it was built from field values equal
\* to the ones asked for - also when the caller passes again an Env value it
\* has changed since.
C22_ContextForRequestedEnv ==
    cx.got.env # 0 =>
        /\ \A f \in Fields : cx.got.asked[f] # "" => cx.got.Build[f] = cx.got.asked[f]
        /\ cx.got.cached => cx.ctx.built = cx.got.asked

----------------------------------------------------------------------------
(* Doc.push with and without the write-back of the enclosing frame's start *)

\* push as the design states it: after the enclosing frame's pending span is
\* emitted, that frame's start is set to the address of the push
pushStart(doc, stack, value) ==
    LET o  == outputPosition(doc)
        st == o.d[stack]
        n  == Len(st)
        d1 == IF n > 0 /\ st[n].start # o.p
              THEN [appendCopy(o.d, st[n].value, st[n].start, o.p)
                        EXCEPT ![stack][n].start = o.p]
              ELSE o.d
    IN  [d1 EXCEPT ![stack] = Append(@, [start |-> o.p, value |-> value])]

\* the values pushed: a highlight group, a link to line 3, column 7 of the
\* file whose path is the first interned string
ScopeValues ==
    {[kind |-> "highlight", group |-> "Comment"],
     [kind |-> "link", path |-> 0, address |-> newPosition(3, 7)]}

stackOf(value) == IF value.kind = "link" THEN "linkStack" ELSE "highlightStack"

\* the same piece is written to both Docs
BothWrite ==
    \E s \in Pieces :
        /\ Len(d.buf) < MaxWrites
        /\ d' = WriteString(d, s)
        /\ ds' = WriteString(ds, s)
        /\ UNCHANGED <<written, lookup, mgrVars, pd, codec, render, cx, upd>>

\* the same value is pushed on both Docs: by Doc.push on d, by the push with
\* the write-back on ds
BothPush ==
    \E v \in ScopeValues :
        /\ Len(d.highlightStack) + Len(d.linkStack) < MaxDepth
        /\ d' = push(d, stackOf(v), v)
        /\ ds' = pushStart(ds, stackOf(v), v)
        /\ UNCHANGED <<written, lookup, mgrVars, pd, codec, render, cx, upd>>

\* the same stack is popped on both Docs
BothPop ==
    \E stack \in {"highlightStack", "linkStack"} :
        /\ Len(d[stack]) > 0
        /\ d' = pop(d, stack)
        /\ ds' = pop(ds, stack)
        /\ UNCHANGED <<written, lookup, mgrVars, pd, codec, render, cx, upd>>

NextPush == BothWrite \/ BothPush \/ BothPop

\* one sequence of writes, pushes and pops applied to two Docs
SpecPush == Init /\ [][NextPush]_vars

\* C23: after every sequence of writes, pushes and pops (a pop only on a
\* stack that is not empty), the Doc built with Doc.push, which leaves the
\* enclosing frame's start alone, holds the same link records and the same
\* highlight records, in the same order, as the Doc built with the push that
\* also sets the enclosing frame's start.
C23_PushWithoutWriteBack ==
    /\ d.links = ds.links
    /\ d.highlights = ds.highlights

\* the enclosing highlight's start is stale in d and moved in ds, its pending
\* span emitted in both
C23_Witness ==
    /\ Len(d.highlightStack) = 2
    /\ d.highlightStack[1].start = newPosition(1, 1)
    /\ ds.highlightStack[1].start = newPosition(1, 2)
    /\ Len(d.highlights) = 1
    /\ d.buf = <<"a", "a">>

----------------------------------------------------------------------------
(* Doc.outputPosition: the incremental scan and a scan of the whole buffer *)

\* the longest buffer scanned, in pieces
MaxScanLen == 4

\* what one Write call appends: a byte, a newline, text with a newline inside
Runs == {<<"a">>, <<NL>>, <<"bc", NL, "a">>}

\* a write between calls of outputPosition
ScanWrite ==
    \E ps \in Runs :
        /\ Len(d.buf) + Len(ps) <= MaxScanLen
        /\ d' = Write(d, ps)
        /\ UNCHANGED <<written, lookup, nonDocVars>>

\* a call of outputPosition between writes: the scan state moves to the end
\* of the buffer
DoOutputPosition ==
    /\ d.scanOffset < byteLen(d.buf)
    /\ d' = outputPosition(d).d
    /\ UNCHANGED <<written, lookup, nonDocVars>>

NextPosition == ScanWrite \/ DoOutputPosition

SpecPosition == Init /\ [][NextPosition]_vars

\* the number of newline bytes in the buffer
newlines(buf) == Cardinality({i \in 1..Len(buf) : buf[i] = NL})

\* the number of bytes after the last newline of the buffer (all of them when
\* it has none)
RECURSIVE bytesAfterLastNewline(_)
bytesAfterLastNewline(buf) ==
    IF buf = <<>> \/ buf[Len(buf)] = NL THEN 0
    ELSE Len(buf[Len(buf)]) + bytesAfterLastNewline(SubSeq(buf, 1, Len(buf) - 1))

\* C24: whatever writes and outputPosition calls came before, outputPosition
\* returns the position of line 1 + the number of newlines in the buffer and
\* column 1 + the number of bytes after the last newline, and the scan state
\* it keeps is the one a scan of the whole buffer from a new Doc's state
\* (NewDoc) ends in.
C24_IncrementalScan ==
    /\ outputPosition(d).p =
           newPosition(1 + newlines(d.buf), 1 + bytesAfterLastNewline(d.buf))
    /\ outputPosition(d).d =
           outputPosition([d EXCEPT !.lineNum = NewDoc.lineNum,
                                    !.lineOffset = NewDoc.lineOffset,
                                    !.scanOffset = NewDoc.scanOffset]).d

\* a newline scanned by one call, then a newline and a byte written that the
\* next call will scan
C24_Witness ==
    /\ d.buf = <<"a", NL, NL, "a">>
    /\ d.scanOffset = 2
    /\ d.lineNum = 2
    /\ d.lineOffset = 1

----------------------------------------------------------------------------
(* docPrinter.execute: the heading of the page, the headers, the           *)
(* declarations                                                            *)

headerGroup == "Constant"

\* the heading execute writes first: of a directory with no package, of a
\* command, of a package
executeHeading ==
    /\ pd.phase = "idle"
    /\ pd.n = 0
    /\ d.buf = <<>>
    /\ \E page \in {"directory", "main", "package"} :
        d' = IF page = "package"
             THEN PopHighlight(PopHighlight(
                      Write(PushHighlight(
                                WriteLinkAnchor(
                                    WriteString(PushHighlight(d, declGroup), "package "),
                                    "fmt", BuildDir, ""),
                                commentGroup),
                            <<" // import \"fmt\"", NL, NL>>)))
             ELSE Write(PopHighlight(
                            WriteLinkAnchor(
                                WriteString(PushHighlight(d, headerGroup),
                                            IF page = "main" THEN "Command "
                                            ELSE "Directory "),
                                "fmt", BuildDir, "")),
                        <<NL, NL>>)
    /\ UNCHANGED <<pd, written, lookup, mgrVars, otherVars>>

\* printHeader(s) on the page of a package, before its first declaration
printHeader ==
    /\ pd.phase = "idle"
    /\ pd.n = 0
    /\ d.buf # <<>>
    /\ d.buf[1] = "package "
    /\ d.buf[Len(d.buf) - 2] # "TYPES"
    /\ d' = Write(PopHighlight(WriteString(PushHighlight(d, headerGroup), "TYPES")),
                  <<NL, NL>>)
    /\ UNCHANGED <<pd, written, lookup, mgrVars, otherVars>>

NextPage ==
    executeHeading \/ printHeader \/ printDecl \/ ScanComment \/ ScanIdent \/ ScanOther
        \/ ScanEOF

\* the construction of one page
SpecPage == Init /\ [][NextPage]_vars

----------------------------------------------------------------------------
(* printDecl: the text on the page is the printed text                     *)

----------------------------------------------------------------------------
(* Declarations: the link of a qualified reference                         *)

\* link record l runs from the first byte of the token pkg to the last byte
\* of the token sym that follows pkg and the dot, in the text the last
\* declaration put on the page
spans(l, pkg, sym) ==
    \E j \in (pd.startLen + 1)..(Len(d.buf) - 2) :
        /\ d.buf[j] = pkg /\ d.buf[j + 1] = "." /\ d.buf[j + 2] = sym
        /\ l.start = piecePos(j)
        /\ l.end = piecePos(j + 2) + Len(sym)

\* C27: for every startLink / endLink pair the visitor made for the
\* declaration printed last, the page holds exactly one link record that runs
\* from the first byte of the package token through the last byte of the
\* symbol token, and that record names the page of the package and the
\* anchor of the symbol.
C27_OneLinkOverQualifiedReference ==
    \A k \in 1..Len(Decls) :
        printed(Decls[k]) =>
            LET q == Visit(Decls[k])
            IN  \A i \in 2..Len(q) :
                    q[i].kind = "endLinkAnnotation" =>
                        /\ Cardinality({n \in 1..Len(d.links) :
                               spans(d.links[n], q[i - 1].data, q[i].data)}) = 1
                        /\ \A n \in 1..Len(d.links) :
                               spans(d.links[n], q[i - 1].data, q[i].data) =>
                                   /\ pathOf(d.links[n]) = bufNamePrefix \o q[i - 1].data
                                   /\ anchorOf(d.links[n]) = q[i].data

----------------------------------------------------------------------------
(* Manager: the overlay recorded for a window and the overlays it holds    *)

\* C28: once onUpdateHighlight has returned, with an error or without, and
\* no handler holds the lock, the manager has a record for a window exactly
\* when the editor holds an overlay in that window, and the record's id and
\* link are those of that overlay.
C28_OverlayRecordConsistent ==
    (mu = 0 /\ lastRet.h = "onUpdateHighlight") =>
        \A w \in Windows :
            /\ highlights[w].set <=> matches[w] # {}
            /\ highlights[w].set =>
                   matches[w] = {[id |-> highlights[w].id, link |-> highlights[w].link]}

----------------------------------------------------------------------------
(* Manager.Display: a batch that fails                                     *)

\* the handler that returned last is a Display whose batch failed
displayFailed == lastRet.h = "onBufReadCmd" /\ lastRet.err /\ lastRet.p.pc = "Execute"

\* C30: a Display whose batch fails returns the error, and neither the step
\* that starts the call nor the step in which the batch fails changes the
\* registry: the buffer's entry is not created, replaced or removed by the
\* call, and no other buffer's entry is touched.
C30_FailedDisplayLeavesRegistry ==
    [][\A t \in Slots :
          /\ (procs[t].pc = "idle" /\ procs'[t].pc = "Execute") => docs' = docs
          /\ (procs[t].pc = "Execute" /\ procs'[t].pc = "idle") =>
                 /\ docs' = docs
                 /\ lastRet'.h = "onBufReadCmd"
                 /\ lastRet'.err
                 /\ lastRet'.p = procs[t]]_vars

\* buffer 1 shows the first page made; a Display of a second page for it
\* failed
C30_Witness ==
    /\ displayFailed
    /\ lastRet.p.b = 1
    /\ lastRet.p.doc.id = 2
    /\ docs[1].id = 1
    /\ procs = [t \in Slots |-> Idle]

----------------------------------------------------------------------------
(* format.minUpdate: the smallest range of lines to replace                *)

\* the longest buffer and the longest formatter output, in lines
MaxLines == 3

\* the lines of a buffer, the lines the formatter returns: at least one line
\* each (nvim_buf_get_lines of an empty buffer, bytes.Split of an empty output)
Lines == {"a", "b"}

Texts == UNION {[1..n -> Lines] : n \in 1..MaxLines}

\* the loop over the matching head lines, from head on, n the shorter length
RECURSIVE headLoop(_, _, _, _)
headLoop(in, out, n, head) ==
    IF head < n /\ in[head + 1] = out[head + 1] THEN headLoop(in, out, n, head + 1)
    ELSE head

\* the loop over the matching tail lines: in[len(in)-tail-1] against
\* out[len(out)-tail-1], indices from 0
RECURSIVE tailLoop(_, _, _, _)
tailLoop(in, out, n, tail) ==
    IF tail < n /\ in[Len(in) - tail] = out[Len(out) - tail]
    THEN tailLoop(in, out, n, tail + 1)
    ELSE tail

Min(a, b) == IF a < b THEN a ELSE b

\* a minUpdate whose tail loop may run over the lines of the head
minUpdateTailOverHead(in, out) ==
    LET n    == Min(Len(in), Len(out))
        head == headLoop(in, out, n, 0)
        tail == tailLoop(in, out, n, 0)
    IN  IF head = Len(in) /\ head = Len(out)
        THEN [write |-> FALSE, head |-> head, tail |-> 0, start |-> 0, end |-> 0,
              repl |-> <<>>]
        ELSE [write |-> TRUE, head |-> head, tail |-> tail, start |-> head,
              end |-> Len(in) - tail, repl |-> SubSeq(out, head + 1, Len(out) - tail)]

\* minUpdate: no call when the head is all of in and of out; else the call
\* SetBufferLines(b, start, end, true, repl)
minUpdate(in, out) ==
    LET n    == Min(Len(in), Len(out))
        head == headLoop(in, out, n, 0)
        tail == tailLoop(in, out, n - head, 0)
    IN  IF head = Len(in) /\ head = Len(out)
        THEN [write |-> FALSE, head |-> head, tail |-> 0, start |-> 0, end |-> 0,
              repl |-> <<>>]
        ELSE [write |-> TRUE, head |-> head, tail |-> tail, start |-> head,
              end |-> Len(in) - tail, repl |-> SubSeq(out, head + 1, Len(out) - tail)]

\* editor: nvim_buf_set_lines replaces the lines start .. end-1 (from 0) of
\* the buffer by repl
SetBufferLines(buf, start, end, repl) ==
    SubSeq(buf, 1, start) \o repl \o SubSeq(buf, end + 1, Len(buf))

\* format: the buffer holds in, the formatter returned out, minUpdate is called
DoMinUpdate ==
    /\ ~upd.called
    /\ \E in \in Texts, out \in Texts :
        LET u == minUpdate(in, out)
        IN  upd' = [called |-> TRUE, in |-> in, out |-> out,
                    buf |-> IF u.write THEN SetBufferLines(in, u.start, u.end, u.repl)
                            ELSE in,
                    writes |-> IF u.write THEN 1 ELSE 0,
                    head |-> u.head, tail |-> u.tail]
    /\ UNCHANGED <<docVars, mgrVars, pd, codec, render, cx, ds>>

NextFormat == DoMinUpdate

SpecFormat == Init /\ [][NextFormat]_vars

\* C29: after minUpdate the buffer holds the lines of out; head is the
\* length of the longest common prefix of in and out, the tail lines are
\* common to the ends of both and head + tail is at most the shorter length;
\* and no write is issued when in equals out.
C29_MinimalUpdateYieldsOut ==
    upd.called =>
        /\ upd.buf = upd.out
        /\ \A i \in 1..upd.head : upd.in[i] = upd.out[i]
        /\ \/ upd.head = Min(Len(upd.in), Len(upd.out))
           \/ upd.in[upd.head + 1] # upd.out[upd.head + 1]
        /\ \A i \in 0..(upd.tail - 1) :
               upd.in[Len(upd.in) - i] = upd.out[Len(upd.out) - i]
        /\ upd.head + upd.tail <= Min(Len(upd.in), Len(upd.out))
        /\ upd.in = upd.out => upd.writes = 0

\* one line is put between two that stay: the head and the tail are one line
\* each
C29_Witness ==
    /\ upd.called
    /\ upd.in = <<"a", "a">>
    /\ upd.out = <<"a", "b", "a">>
    /\ upd.head = 1
    /\ upd.tail = 1
    /\ upd.writes = 1
    /\ upd.buf = upd.out

============================================================================
